---- MODULE Spec2Model ----
(***************************************************************************)
(* Model of the blueprint validation, healing and deployment-retry logic   *)
(* of the Make.com MCP server (src/src/mcp/server.ts).                     *)
(*                                                                         *)
(* Blueprints are JSON values.  A JSON value is a record tagged by k:      *)
(*   undefined | null | num | str | bool | arr (v a sequence) |            *)
(*   obj (v a function from the keys present to values).                   *)
(* Strings are TLA+ strings; the string functions of the code work on the  *)
(* characters of a string, which the table Chars gives.  Step ids have     *)
(* the form namespace:Identifier.                                          *)
(***************************************************************************)
EXTENDS Integers, Sequences, FiniteSets, TLC

VARIABLES
    tool,        \* which call this behaviour follows: "validate", "heal", "create", ...
    pc,          \* position of the call
    blueprint,   \* the parsed blueprint argument (JSON.parse(blueprint))
    apiKeyValid, \* hasValidApiKey(): MAKE_API_KEY set and not the placeholder
    liveIds,     \* outcome of fetchLiveModuleIds: NoLive (null) or a set of ids
    report,      \* validate_scenario: the tool result
    healed,      \* heal applied once: [threw, tree, scheduling]
    healedTwice, \* heal applied to the healed tree
    reconciled,  \* the root flow after injectVerifiedVersions alone
    teamIdGiven, \* create_scenario: teamId or MAKE_TEAM_ID gives a team id
    parsedTree,  \* create_scenario: parsed, the blueprint being healed, repaired and submitted
    schedulingConfig,
    attempt,
    submissions, \* number of axios.post calls made
    triedVersionFallbacks,
    strippedVersionsForRetry,
    remappedModules,
    failedModulesOuter,
    lastFailure, \* the latest rejected submission: its attempt, error and the repair chosen
    result,      \* create_scenario: the tool result
    stepId,      \* resolver: the step id resolved
    permutedIds, \* resolver: the same live ids inserted in another order
    suggestion,  \* resolver: resolveClosestLiveModule(stepId, liveIds)
    suggestionPermuted, \* resolver: the result against permutedIds
    cache,       \* liveModuleCatalogCache.get(baseUrl): NoEntry or [fetchedAt, ids]
    now,         \* Date.now()
    calls,       \* number of fetchLiveModuleIds calls made
    requests,    \* number of axios.get calls made by fetchLiveModuleIds
    fetched,     \* what the latest fetchLiveModuleIds call returned
    permutedBlueprint, \* validate_scenario: the blueprint with sibling routes permuted
    permutedReport,    \* validate_scenario: the tool result for permutedBlueprint
    requestedIds,      \* check_account_compatibility: the moduleIds argument
    compatibility,     \* check_account_compatibility: the tool result
    currentLevel,      \* logger: the level set by setLogLevel
    stderr,            \* logger: the lines written to process.stderr, by level
    stdout,            \* logger: the lines written to process.stdout
    logCalls,          \* logger: the levels of the logger calls made, in order
    modules,           \* MakeDatabase: the rows of table modules
    modulesFts,        \* MakeDatabase: the rows of table modules_fts
    got,               \* MakeDatabase: what the latest getModule returned
    inserted,          \* MakeDatabase: the arguments of the insertModule calls, in order
    readers            \* the calls of fetchLiveModuleIds in progress, by caller

validateVars == <<report>>
healVars == <<healed, healedTwice, reconciled>>
createVars == <<teamIdGiven, parsedTree, schedulingConfig, attempt, submissions,
                triedVersionFallbacks, strippedVersionsForRetry, remappedModules,
                failedModulesOuter, lastFailure, result>>
resolverVars == <<stepId, permutedIds, suggestion, suggestionPermuted>>
cacheVars == <<cache, now, calls, requests, fetched>>
compatVars == <<requestedIds, compatibility>>
permuteVars == <<permutedBlueprint, permutedReport>>
loggerVars == <<currentLevel, stderr, stdout, logCalls>>
dbVars == <<modules, modulesFts, got, inserted>>
auxVars == <<loggerVars, dbVars, readers>>
vars == <<tool, pc, blueprint, apiKeyValid, liveIds, validateVars, healVars, createVars,
          resolverVars, cacheVars, permuteVars, compatVars, auxVars>>

-----------------------------------------------------------------------------
(* JSON values and the JavaScript operations the code applies to them *)

Undefined == [k |-> "undefined"]
Null == [k |-> "null"]
Num(n) == [k |-> "num", v |-> n]
Str(s) == [k |-> "str", v |-> s]
Arr(s) == [k |-> "arr", v |-> s]
Obj(f) == [k |-> "obj", v |-> f]
EmptyObj == [k |-> "obj", v |-> <<>>]

\* A TypeError was thrown while evaluating (property read or write on null,
\* undefined or, for writes in strict mode, a primitive).
Threw == [k |-> "throw"]

\* the blueprint argument is not JSON text: JSON.parse throws
InvalidJson == [k |-> "invalid"]

IsNullish(x) == x.k \in {"undefined", "null"}
IsArray(x) == x.k = "arr"
IsString(x) == x.k = "str"
\* x && typeof x === 'object'
IsObjectLike(x) == x.k \in {"obj", "arr"}
\* JavaScript truthiness
Truthy(x) ==
    CASE x.k \in {"undefined", "null"} -> FALSE
      [] x.k = "num" -> x.v # 0
      [] x.k = "str" -> x.v # ""
      [] OTHER -> TRUE

\* x[f] for a non-nullish x (the caller guards against nullish x)
Get(x, f) == IF x.k = "obj" /\ f \in DOMAIN x.v THEN x.v[f] ELSE Undefined
\* x?.[f]
OptGet(x, f) == IF IsNullish(x) THEN Undefined ELSE Get(x, f)
\* x[f] = val on an object; a property set on an array is not serialised
Put(x, f, val) ==
    IF x.k = "obj"
    THEN Obj([g \in (DOMAIN x.v) \cup {f} |-> IF g = f THEN val ELSE x.v[g]])
    ELSE x
\* delete x[f]
Del(x, f) ==
    IF x.k = "obj" THEN Obj([g \in (DOMAIN x.v) \ {f} |-> x.v[g]]) ELSE x

Chars ==
    "json:ParseJSON" :> <<"j","s","o","n",":","P","a","r","s","e","J","S","O","N">> @@
    "json:CreateJSON" :> <<"j","s","o","n",":","C","r","e","a","t","e","J","S","O","N">> @@
    "json:TransformToJSON" :> <<"j","s","o","n",":","T","r","a","n","s","f","o","r","m","T","o","J","S","O","N">> @@
    "gateway:CustomWebHook" :> <<"g","a","t","e","w","a","y",":","C","u","s","t","o","m","W","e","b","H","o","o","k">> @@
    "gateway:WebhookRespond" :> <<"g","a","t","e","w","a","y",":","W","e","b","h","o","o","k","R","e","s","p","o","n","d">> @@
    "builtin:BasicRouter" :> <<"b","u","i","l","t","i","n",":","B","a","s","i","c","R","o","u","t","e","r">> @@
    "builtin:BasicFeeder" :> <<"b","u","i","l","t","i","n",":","B","a","s","i","c","F","e","e","d","e","r">> @@
    "builtin:BasicAggregator" :> <<"b","u","i","l","t","i","n",":","B","a","s","i","c","A","g","g","r","e","g","a","t","o","r">> @@
    "http:ActionSendData" :> <<"h","t","t","p",":","A","c","t","i","o","n","S","e","n","d","D","a","t","a">> @@
    "http:ActionSendDataBasicAuth" :> <<"h","t","t","p",":","A","c","t","i","o","n","S","e","n","d","D","a","t","a","B","a","s","i","c","A","u","t","h">> @@
    "http:ActionGetFile" :> <<"h","t","t","p",":","A","c","t","i","o","n","G","e","t","F","i","l","e">> @@
    "http:ActionSendDataAdvanced" :> <<"h","t","t","p",":","A","c","t","i","o","n","S","e","n","d","D","a","t","a","A","d","v","a","n","c","e","d">> @@
    "google-sheets:ActionAddRow" :> <<"g","o","o","g","l","e","-","s","h","e","e","t","s",":","A","c","t","i","o","n","A","d","d","R","o","w">> @@
    "google-sheets:ActionUpdateRow" :> <<"g","o","o","g","l","e","-","s","h","e","e","t","s",":","A","c","t","i","o","n","U","p","d","a","t","e","R","o","w">> @@
    "google-sheets:ActionDeleteRow" :> <<"g","o","o","g","l","e","-","s","h","e","e","t","s",":","A","c","t","i","o","n","D","e","l","e","t","e","R","o","w">> @@
    "util:SetVariable" :> <<"u","t","i","l",":","S","e","t","V","a","r","i","a","b","l","e">> @@
    "util:GetVariable" :> <<"u","t","i","l",":","G","e","t","V","a","r","i","a","b","l","e">> @@
    "util:SetMultipleVariables" :> <<"u","t","i","l",":","S","e","t","M","u","l","t","i","p","l","e","V","a","r","i","a","b","l","e","s">> @@
    "slack:ActionPostMessage" :> <<"s","l","a","c","k",":","A","c","t","i","o","n","P","o","s","t","M","e","s","s","a","g","e">> @@
    "datastore:ActionGetRecord" :> <<"d","a","t","a","s","t","o","r","e",":","A","c","t","i","o","n","G","e","t","R","e","c","o","r","d">> @@
    "datastore:ActionAddRecord" :> <<"d","a","t","a","s","t","o","r","e",":","A","c","t","i","o","n","A","d","d","R","e","c","o","r","d">> @@
    "datastore:ActionUpdateRecord" :> <<"d","a","t","a","s","t","o","r","e",":","A","c","t","i","o","n","U","p","d","a","t","e","R","e","c","o","r","d">> @@
    "datastore:ActionDeleteRecord" :> <<"d","a","t","a","s","t","o","r","e",":","A","c","t","i","o","n","D","e","l","e","t","e","R","e","c","o","r","d">> @@
    "datastore:ActionSearchRecords" :> <<"d","a","t","a","s","t","o","r","e",":","A","c","t","i","o","n","S","e","a","r","c","h","R","e","c","o","r","d","s">> @@
    "openai:ActionCreateCompletion" :> <<"o","p","e","n","a","i",":","A","c","t","i","o","n","C","r","e","a","t","e","C","o","m","p","l","e","t","i","o","n">> @@
    "openai-gpt-3:ActionCreateCompletion" :> <<"o","p","e","n","a","i","-","g","p","t","-","3",":","A","c","t","i","o","n","C","r","e","a","t","e","C","o","m","p","l","e","t","i","o","n">> @@
    "openai-gpt-3:ActionCreateChatCompletion" :> <<"o","p","e","n","a","i","-","g","p","t","-","3",":","A","c","t","i","o","n","C","r","e","a","t","e","C","h","a","t","C","o","m","p","l","e","t","i","o","n">> @@
    "openai:ActionAnalyzeImages" :> <<"o","p","e","n","a","i",":","A","c","t","i","o","n","A","n","a","l","y","z","e","I","m","a","g","e","s">> @@
    "openai:ActionCreateImage" :> <<"o","p","e","n","a","i",":","A","c","t","i","o","n","C","r","e","a","t","e","I","m","a","g","e">> @@
    "email:ActionSendEmail" :> <<"e","m","a","i","l",":","A","c","t","i","o","n","S","e","n","d","E","m","a","i","l">> @@
    "ai-provider:ActionChatCompletion" :> <<"a","i","-","p","r","o","v","i","d","e","r",":","A","c","t","i","o","n","C","h","a","t","C","o","m","p","l","e","t","i","o","n">> @@
    "builtin:Schedule" :> <<"b","u","i","l","t","i","n",":","S","c","h","e","d","u","l","e">> @@
    "openai:ActionEditImage" :> <<"o","p","e","n","a","i",":","A","c","t","i","o","n","E","d","i","t","I","m","a","g","e">> @@
    "nonexistent:Module" :> <<"n","o","n","e","x","i","s","t","e","n","t",":","M","o","d","u","l","e">> @@
    "other:Unknown" :> <<"o","t","h","e","r",":","U","n","k","n","o","w","n">> @@
    "slack:PostMessage" :> <<"s","l","a","c","k",":","P","o","s","t","M","e","s","s","a","g","e">> @@
    "every 15 minutes" :> <<"e","v","e","r","y"," ","1","5"," ","m","i","n","u","t","e","s">> @@
    "every hour" :> <<"e","v","e","r","y"," ","h","o","u","r">> @@
    "every day" :> <<"e","v","e","r","y"," ","d","a","y">> @@
    "every week" :> <<"e","v","e","r","y"," ","w","e","e","k">> @@
    "every month" :> <<"e","v","e","r","y"," ","m","o","n","t","h">> @@
    "custom" :> <<"c","u","s","t","o","m">> @@
    "2 min" :> <<"2"," ","m","i","n">> @@
    "slack:Action-PostMessage" :> <<"s","l","a","c","k",":","A","c","t","i","o","n","-","P","o","s","t","M","e","s","s","a","g","e">> @@
    "slack:actionpostmessage" :> <<"s","l","a","c","k",":","a","c","t","i","o","n","p","o","s","t","m","e","s","s","a","g","e">> @@
    "slack:CreatePostMessage" :> <<"s","l","a","c","k",":","C","r","e","a","t","e","P","o","s","t","M","e","s","s","a","g","e">> @@
    "slack:SendSend" :> <<"s","l","a","c","k",":","S","e","n","d","S","e","n","d">> @@
    "slack:SendMessageNow" :> <<"s","l","a","c","k",":","S","e","n","d","M","e","s","s","a","g","e","N","o","w">> @@
    "slak:ActoinPostMessage" :> <<"s","l","a","k",":","A","c","t","o","i","n","P","o","s","t","M","e","s","s","a","g","e">> @@
    "nocolon" :> <<"n","o","c","o","l","o","n">> @@
    "" :> <<>>

\* s.split(':')[0]
FirstColon(cs) ==
    IF \E i \in 1..Len(cs) : cs[i] = ":"
    THEN CHOOSE i \in 1..Len(cs) : cs[i] = ":" /\ \A j \in 1..(i - 1) : cs[j] # ":"
    ELSE Len(cs) + 1
AppPrefix(moduleId) == SubSeq(Chars[moduleId], 1, FirstColon(Chars[moduleId]) - 1)
\* s.includes(sub), on characters
Includes(cs, sub) ==
    \E i \in 1..(Len(cs) - Len(sub) + 1) : SubSeq(cs, i, i + Len(sub) - 1) = sub

-----------------------------------------------------------------------------
(* Static registries *)

VERIFIED_MODULE_VERSIONS ==
    "json:ParseJSON" :> 1 @@
    "json:CreateJSON" :> 1 @@
    "json:TransformToJSON" :> 1 @@
    "gateway:CustomWebHook" :> 1 @@
    "gateway:WebhookRespond" :> 1 @@
    "builtin:BasicRouter" :> 1 @@
    "builtin:BasicFeeder" :> 1 @@
    "builtin:BasicAggregator" :> 1 @@
    "http:ActionSendData" :> 3 @@
    "http:ActionSendDataBasicAuth" :> 3 @@
    "http:ActionGetFile" :> 3 @@
    "http:ActionSendDataAdvanced" :> 3 @@
    "google-sheets:ActionAddRow" :> 1 @@
    "google-sheets:ActionUpdateRow" :> 1 @@
    "google-sheets:ActionDeleteRow" :> 1 @@
    "util:SetVariable" :> 1 @@
    "util:GetVariable" :> 1 @@
    "util:SetMultipleVariables" :> 1 @@
    "slack:ActionPostMessage" :> 1 @@
    "datastore:ActionGetRecord" :> 1 @@
    "datastore:ActionAddRecord" :> 1 @@
    "datastore:ActionUpdateRecord" :> 1 @@
    "datastore:ActionDeleteRecord" :> 1 @@
    "datastore:ActionSearchRecords" :> 1

\* PROBLEMATIC_MODULES: id -> suggested alternative (the reason text is not modelled)
PROBLEMATIC_MODULES ==
    "openai:ActionCreateCompletion" :> "http:ActionSendData" @@
    "openai-gpt-3:ActionCreateCompletion" :> "http:ActionSendData" @@
    "openai-gpt-3:ActionCreateChatCompletion" :> "http:ActionSendData" @@
    "openai:ActionAnalyzeImages" :> "http:ActionSendData" @@
    "openai:ActionCreateImage" :> "http:ActionSendData" @@
    "email:ActionSendEmail" :> "microsoft-smtp-imap:ActionSendAnEmail" @@
    "ai-provider:ActionChatCompletion" :> "http:ActionSendData"

NoInfo == "none"
\* the denylist read as its exact entries only, without the namespace match
exactProblematicModuleInfo(moduleId) ==
    IF moduleId \in DOMAIN PROBLEMATIC_MODULES THEN PROBLEMATIC_MODULES[moduleId] ELSE NoInfo
\* getProblematicModuleInfo: the alternative, or NoInfo for undefined
getProblematicModuleInfo(moduleId) ==
    IF moduleId \in DOMAIN PROBLEMATIC_MODULES THEN PROBLEMATIC_MODULES[moduleId]
    ELSE IF AppPrefix(moduleId) \in {<<"o","p","e","n","a","i">>,
                                     <<"o","p","e","n","a","i","-","g","p","t","-","3">>}
         THEN "http:ActionSendData"
         ELSE NoInfo

-----------------------------------------------------------------------------
(* Healing: the network-free repair of create_scenario *)

IsStr(x, s) == x.k = "str" /\ x.v = s
Bool(b) == [k |-> "bool", v |-> b]

RECURSIVE injectVerifiedVersions(_)
\* a reconciliation that pins a registry step only when it carries no version and
\* leaves the version of an unrecognised step alone
InjectWhenUnpinned(node) ==
    IF ~IsObjectLike(node) THEN node
    ELSE LET m == Get(node, "module")
             n1 == IF IsString(m) /\ m.v \in DOMAIN VERIFIED_MODULE_VERSIONS
                      /\ Get(node, "version").k = "undefined"
                   THEN Put(node, "version", Num(VERIFIED_MODULE_VERSIONS[m.v]))
                   ELSE node
             routes == Get(n1, "routes")
             InjectRoute(route) ==
                 IF IsArray(OptGet(route, "flow"))
                 THEN Put(route, "flow", Arr(injectVerifiedVersions(Get(route, "flow").v)))
                 ELSE route
         IN  IF IsArray(routes)
             THEN Put(n1, "routes", Arr([i \in 1..Len(routes.v) |-> InjectRoute(routes.v[i])]))
             ELSE n1
\* one iteration of the loop of injectVerifiedVersions
InjectNode(node) ==
    IF ~IsObjectLike(node) THEN node
    ELSE LET m == Get(node, "module")
             n1 == IF IsString(m)
                   THEN IF m.v \in DOMAIN VERIFIED_MODULE_VERSIONS
                        THEN Put(node, "version", Num(VERIFIED_MODULE_VERSIONS[m.v]))
                        ELSE Del(node, "version")
                   ELSE node
             routes == Get(n1, "routes")
             InjectRoute(route) ==
                 IF IsArray(OptGet(route, "flow"))
                 THEN Put(route, "flow", Arr(injectVerifiedVersions(Get(route, "flow").v)))
                 ELSE route
         IN  IF IsArray(routes)
             THEN Put(n1, "routes", Arr([i \in 1..Len(routes.v) |-> InjectRoute(routes.v[i])]))
             ELSE n1
\* a reconciliation that leaves every version field as it arrived
keepVersions(flow) == flow
\* injectVerifiedVersions(flow), as the flow it leaves behind
injectVerifiedVersions(flow) == [i \in 1..Len(flow) |-> InjectNode(flow[i])]

Digits == {"0", "1", "2", "3", "4", "5", "6", "7", "8", "9"}
DigitVal ==
    "0" :> 0 @@ "1" :> 1 @@ "2" :> 2 @@ "3" :> 3 @@ "4" :> 4 @@
    "5" :> 5 @@ "6" :> 6 @@ "7" :> 7 @@ "8" :> 8 @@ "9" :> 9
RECURSIVE DecimalValue(_)
DecimalValue(ds) ==
    IF ds = <<>> THEN 0
    ELSE 10 * DecimalValue(SubSeq(ds, 1, Len(ds) - 1)) + DigitVal[ds[Len(ds)]]
UpperToLower ==
    "A" :> "a" @@ "B" :> "b" @@ "C" :> "c" @@ "D" :> "d" @@ "E" :> "e" @@
    "F" :> "f" @@ "G" :> "g" @@ "H" :> "h" @@ "I" :> "i" @@ "J" :> "j" @@
    "K" :> "k" @@ "L" :> "l" @@ "M" :> "m" @@ "N" :> "n" @@ "O" :> "o" @@
    "P" :> "p" @@ "Q" :> "q" @@ "R" :> "r" @@ "S" :> "s" @@ "T" :> "t" @@
    "U" :> "u" @@ "V" :> "v" @@ "W" :> "w" @@ "X" :> "x" @@ "Y" :> "y" @@
    "Z" :> "z"
\* s.toLowerCase(), on characters
ToLowerCase(cs) ==
    [i \in 1..Len(cs) |-> IF cs[i] \in DOMAIN UpperToLower THEN UpperToLower[cs[i]] ELSE cs[i]]

\* text.match(/(\d+)\s*min/): the digits of the leftmost match, or <<>>
MinuteMatch(cs) ==
    LET RunEnd(i) == CHOOSE j \in i..Len(cs) :
                        /\ \A h \in i..j : cs[h] \in Digits
                        /\ (j = Len(cs) \/ cs[j + 1] \notin Digits)
        SpaceEnd(j) == CHOOSE e \in j..Len(cs) :
                        /\ \A h \in (j + 1)..e : cs[h] = " "
                        /\ (e = Len(cs) \/ cs[e + 1] # " ")
        Matches(i) == /\ cs[i] \in Digits
                      /\ SubSeq(cs, SpaceEnd(RunEnd(i)) + 1, SpaceEnd(RunEnd(i)) + 3)
                            = <<"m", "i", "n">>
    IN  IF \E i \in 1..Len(cs) : Matches(i)
        THEN LET i == CHOOSE i \in 1..Len(cs) :
                          Matches(i) /\ \A h \in 1..(i - 1) : ~Matches(h)
             IN  SubSeq(cs, i, RunEnd(i))
        ELSE <<>>

Indefinitely(n) == [type |-> "indefinitely", interval |-> n]
OnDemand == [type |-> "on-demand"]

parseSchedulingFromScheduleModule(module) ==
    LET intervalValue == OptGet(OptGet(module, "parameters"), "interval")
        intervalText == IF IsString(intervalValue)
                        THEN ToLowerCase(Chars[intervalValue.v]) ELSE <<>>
        minutes == DecimalValue(MinuteMatch(intervalText))
    IN  IF Includes(intervalText, <<"d", "a", "y">>) THEN Indefinitely(86400)
        ELSE IF Includes(intervalText, <<"w", "e", "e", "k">>) THEN Indefinitely(604800)
        ELSE IF Includes(intervalText, <<"m", "o", "n", "t", "h">>) THEN Indefinitely(2592000)
        ELSE IF Includes(intervalText, <<"h", "o", "u", "r">>) THEN Indefinitely(3600)
        ELSE IF MinuteMatch(intervalText) # <<>> /\ minutes > 0 THEN Indefinitely(minutes * 60)
        ELSE Indefinitely(900)

\* the filter predicate of normalizeSchedulingModules: is mod removed
IsScheduleModule(mod) == IsObjectLike(mod) /\ IsStr(Get(mod, "module"), "builtin:Schedule")

\* a normalisation that takes out the first schedule module only
removeFirstSchedule(flow) ==
    LET removed == SelectSeq(flow, IsScheduleModule)
        first == CHOOSE i \in 1..Len(flow) :
                    IsScheduleModule(flow[i]) /\ \A j \in 1..(i - 1) : ~IsScheduleModule(flow[j])
    IN  IF removed = <<>>
        THEN [normalizedFlow |-> flow, scheduling |-> Null, removedModules |-> 0]
        ELSE [normalizedFlow |-> SubSeq(flow, 1, first - 1) \o SubSeq(flow, first + 1, Len(flow)),
              scheduling |-> parseSchedulingFromScheduleModule(removed[1]),
              removedModules |-> 1]
\* normalizeSchedulingModules(flow): scheduling is Null when no module was removed
normalizeSchedulingModules(flow) ==
    LET removed == SelectSeq(flow, IsScheduleModule)
        Keep(mod) == ~IsScheduleModule(mod)
    IN  [normalizedFlow |-> SelectSeq(flow, Keep),
         scheduling |-> IF removed = <<>> THEN Null
                        ELSE parseSchedulingFromScheduleModule(removed[1]),
         removedModules |-> Len(removed)]

DesignerDefault == Obj([designer |-> Obj([x |-> Num(0), y |-> Num(0)])])

HasThrown(x) == x.k = "throw"
AnyThrew(s) == \E i \in 1..Len(s) : HasThrown(s[i])

RECURSIVE healFlow(_)
\* one iteration of the loop of healFlow: the node it leaves, or Threw
HealNode(mod) ==
    IF ~IsObjectLike(mod) THEN mod
    ELSE LET md == Get(mod, "metadata")
             \* a property write on a truthy primitive throws in strict mode
             metaThrows == Truthy(md) /\ ~IsObjectLike(md) /\ ~Truthy(Get(md, "designer"))
             m1 == IF ~Truthy(md) THEN Put(mod, "metadata", DesignerDefault)
                   ELSE IF ~Truthy(Get(md, "designer"))
                        THEN Put(mod, "metadata",
                                 Put(md, "designer", Obj([x |-> Num(0), y |-> Num(0)])))
                        ELSE mod
             routes == Get(m1, "routes")
             HealRoute(route) ==
                 IF IsNullish(route) THEN Threw
                 ELSE LET r1 == Del(route, "filter")
                          f == Get(r1, "flow")
                      IN  IF IsArray(f)
                          THEN LET sub == healFlow(f.v)
                               IN  IF HasThrown(sub) THEN Threw ELSE Put(r1, "flow", sub)
                          ELSE r1
             healedRoutes == [i \in 1..Len(routes.v) |-> HealRoute(routes.v[i])]
         IN  IF metaThrows THEN Threw
             ELSE IF IsArray(routes)
                  THEN IF AnyThrew(healedRoutes) THEN Threw
                       ELSE Put(m1, "routes", Arr(healedRoutes))
                  ELSE m1
\* healFlow(flow): the array it leaves behind, or Threw
healFlow(flow) ==
    LET r == [i \in 1..Len(flow) |-> HealNode(flow[i])] IN IF AnyThrew(r) THEN Threw ELSE Arr(r)

MetadataDefault ==
    Obj([version |-> Num(1),
         scenario |-> Obj([roundtrips |-> Num(1), maxErrors |-> Num(3),
                           autoCommit |-> Bool(TRUE), autoCommitTriggerLast |-> Bool(TRUE),
                           sequential |-> Bool(FALSE), confidential |-> Bool(FALSE),
                           dataloss |-> Bool(FALSE), dlq |-> Bool(FALSE),
                           freshVariables |-> Bool(FALSE)]),
         designer |-> Obj([orphans |-> Arr(<<>>)])])

\* the root flow loses its schedule modules, which set the scheduling configuration
ApplyNormalized(parsed, normalized) ==
    [tree |-> Put(parsed, "flow", Arr(normalized.normalizedFlow)),
     scheduling |-> IF normalized.scheduling # Null THEN normalized.scheduling ELSE OnDemand]
\* parsed.flow on null is a TypeError
NormalizeScheduling(parsed) ==
    IF IsNullish(parsed) THEN [tree |-> Threw, scheduling |-> OnDemand]
    ELSE IF IsArray(Get(parsed, "flow"))
    THEN ApplyNormalized(parsed, normalizeSchedulingModules(Get(parsed, "flow").v))
    ELSE [tree |-> parsed, scheduling |-> OnDemand]
\* if (!parsed.metadata) parsed.metadata = {...}: the write throws on a primitive
EnsureMetadata(tree) ==
    IF HasThrown(tree) THEN Threw
    ELSE IF Truthy(Get(tree, "metadata")) THEN tree
    ELSE IF ~IsObjectLike(tree) THEN Threw
    ELSE Put(tree, "metadata", MetadataDefault)
\* if (Array.isArray(parsed.flow)) healFlow(parsed.flow)
ApplyHealed(tree, healedFlow) ==
    IF HasThrown(healedFlow) THEN Threw ELSE Put(tree, "flow", healedFlow)
HealStructure(tree) ==
    IF HasThrown(tree) THEN Threw
    ELSE IF IsArray(Get(tree, "flow")) THEN ApplyHealed(tree, healFlow(Get(tree, "flow").v))
    ELSE tree
\* if (Array.isArray(parsed.flow)) injectVerifiedVersions(parsed.flow)
InjectVersionsOf(tree) ==
    IF HasThrown(tree) THEN Threw
    ELSE IF IsArray(Get(tree, "flow"))
         THEN Put(tree, "flow", Arr(injectVerifiedVersions(Get(tree, "flow").v)))
    ELSE tree
HealResult(tree, scheduling) ==
    IF HasThrown(tree) THEN [threw |-> TRUE]
    ELSE [threw |-> FALSE, tree |-> tree, scheduling |-> scheduling]
HealFrom(normalized) ==
    HealResult(InjectVersionsOf(HealStructure(EnsureMetadata(normalized.tree))),
               normalized.scheduling)
\* create_scenario from the parse to the version injection: the healed tree and the
\* scheduling configuration, or threw when a TypeError reaches the catch
Heal(parsed) == HealFrom(NormalizeScheduling(parsed))
-----------------------------------------------------------------------------
(* Step id matching against the live catalog, and the tree repairs of the retry loop *)

LowerLetters == {UpperToLower[c] : c \in DOMAIN UpperToLower}
UpperLetters == DOMAIN UpperToLower
IsAlnum(c) == c \in LowerLetters \cup UpperLetters \cup Digits

\* normalizeModuleId, on characters
normalizeModuleId(cs) ==
    SelectSeq(ToLowerCase(cs), LAMBDA c : c \in LowerLetters \cup Digits \cup {":"})

\* tokenizeModulePart, on characters: the maximal alphanumeric runs, cut where a lower
\* case letter is followed by an upper case one, in lower case
IsCamelBreak(cs, i) == i > 1 /\ cs[i - 1] \in LowerLetters /\ cs[i] \in UpperLetters
TokenStarts(cs) ==
    {i \in 1..Len(cs) : IsAlnum(cs[i]) /\ (i = 1 \/ ~IsAlnum(cs[i - 1]) \/ IsCamelBreak(cs, i))}
TokenEnd(cs, i) ==
    CHOOSE j \in i..Len(cs) :
        /\ \A h \in (i + 1)..j : IsAlnum(cs[h]) /\ ~IsCamelBreak(cs, h)
        /\ (j = Len(cs) \/ ~IsAlnum(cs[j + 1]) \/ IsCamelBreak(cs, j + 1))
TokenStart(starts, k) == CHOOSE i \in starts : Cardinality({h \in starts : h < i}) = k - 1
TokensAt(cs, starts) ==
    [k \in 1..Cardinality(starts) |->
        ToLowerCase(SubSeq(cs, TokenStart(starts, k), TokenEnd(cs, TokenStart(starts, k))))]
tokenizeModulePart(cs) == TokensAt(cs, TokenStarts(cs))

\* s.split(':')[1], or <<>> when there is none
SecondPart(cs) ==
    LET a == FirstColon(cs)
        rest == SubSeq(cs, a + 1, Len(cs))
    IN  IF a > Len(cs) THEN <<>> ELSE SubSeq(rest, 1, FirstColon(rest) - 1)
StartsWith(cs, prefix) == Len(cs) >= Len(prefix) /\ SubSeq(cs, 1, Len(prefix)) = prefix

NoSuggestion == ""
\* the live ids whose normalised form is moduleNorm: normalizedMap.get(moduleNorm)
ExactNormalized(moduleNorm, ids) ==
    SelectSeq(ids, LAMBDA id : normalizeModuleId(Chars[id]) = moduleNorm)
\* the tokens of a candidate that are target tokens, counted
Overlap(candidate, targetTokens) ==
    Len(SelectSeq(tokenizeModulePart(SecondPart(candidate)), LAMBDA t : t \in targetTokens))
\* the loop over the candidates: the first one no earlier or later one beats
Best(overlaps) ==
    CHOOSE b \in 1..Len(overlaps) :
        /\ \A j \in 1..Len(overlaps) : overlaps[j] <= overlaps[b]
        /\ \A j \in 1..(b - 1) : overlaps[j] < overlaps[b]
\* best.score < 0.5, the score being overlap / Math.max(targetTokens.size, 1)
BestCandidate(candidates, overlaps, size) ==
    IF Len(candidates) = 0 THEN NoSuggestion
    ELSE IF 2 * overlaps[Best(overlaps)] < size THEN NoSuggestion
    ELSE candidates[Best(overlaps)]
ClosestAmong(candidates, targetTokens) ==
    BestCandidate(candidates,
                  [j \in 1..Len(candidates) |-> Overlap(Chars[candidates[j]], targetTokens)],
                  IF Cardinality(targetTokens) > 1 THEN Cardinality(targetTokens) ELSE 1)
ClosestByTokens(appPart, tokens, ids) ==
    ClosestAmong(SelectSeq(ids, LAMBDA id : StartsWith(Chars[id], Append(appPart, ":"))),
                 {tokens[i] : i \in 1..Len(tokens)})
ClosestByParts(appPart, modulePart, ids) ==
    IF appPart = <<>> \/ modulePart = <<>> THEN NoSuggestion
    ELSE ClosestByTokens(appPart, tokenizeModulePart(modulePart), ids)
ClosestNormalized(cs, exactNormalized, ids) ==
    IF Len(exactNormalized) = 1 THEN exactNormalized[1]
    ELSE ClosestByParts(SubSeq(cs, 1, FirstColon(cs) - 1), SecondPart(cs), ids)
ClosestOf(cs, ids) == ClosestNormalized(cs, ExactNormalized(normalizeModuleId(cs), ids), ids)
\* resolveClosestLiveModule(moduleId, liveIds): ids is the live set in insertion order;
\* NoSuggestion for null
resolveClosestLiveModule(moduleId, ids) ==
    IF \E i \in 1..Len(ids) : ids[i] = moduleId THEN moduleId
    ELSE ClosestOf(Chars[moduleId], ids)

RECURSIVE replaceModuleIdsInFlow(_, _)
\* replaceModuleIdsInFlow(flow, replacements), as the flow it leaves behind;
\* replacements is a function from ids to ids
ReplaceNode(node, replacements) ==
    IF ~IsObjectLike(node) THEN node
    ELSE LET m == Get(node, "module")
             n1 == IF IsString(m) /\ m.v \in DOMAIN replacements
                   THEN Put(node, "module", Str(replacements[m.v])) ELSE node
             routes == Get(n1, "routes")
             ReplaceRoute(route) ==
                 IF IsArray(OptGet(route, "flow"))
                 THEN Put(route, "flow",
                          Arr(replaceModuleIdsInFlow(Get(route, "flow").v, replacements)))
                 ELSE route
         IN  IF IsArray(routes) THEN Put(n1, "routes", Arr([i \in 1..Len(routes.v) |-> ReplaceRoute(routes.v[i])]))
             ELSE n1
replaceModuleIdsInFlow(flow, replacements) ==
    [i \in 1..Len(flow) |-> ReplaceNode(flow[i], replacements)]

RECURSIVE stripModuleVersionsInFlow(_)
\* stripModuleVersionsInFlow(flow), as the flow it leaves behind
StripNode(node) ==
    IF ~IsObjectLike(node) THEN node
    ELSE LET n1 == Del(node, "version")
             routes == Get(n1, "routes")
             StripRoute(route) ==
                 IF IsArray(OptGet(route, "flow"))
                 THEN Put(route, "flow", Arr(stripModuleVersionsInFlow(Get(route, "flow").v)))
                 ELSE route
         IN  IF IsArray(routes) THEN Put(n1, "routes", Arr([i \in 1..Len(routes.v) |-> StripRoute(routes.v[i])]))
             ELSE n1
stripModuleVersionsInFlow(flow) == [i \in 1..Len(flow) |-> StripNode(flow[i])]

RECURSIVE setModuleVersionInFlow(_, _, _)
\* setModuleVersionInFlow(flow, moduleId, version), as the flow it leaves behind
SetVersionNode(node, moduleId, version) ==
    IF ~IsObjectLike(node) THEN node
    ELSE LET n1 == IF IsStr(Get(node, "module"), moduleId)
                   THEN Put(node, "version", Num(version)) ELSE node
             routes == Get(n1, "routes")
             SetRoute(route) ==
                 IF IsArray(OptGet(route, "flow"))
                 THEN Put(route, "flow",
                          Arr(setModuleVersionInFlow(Get(route, "flow").v, moduleId, version)))
                 ELSE route
         IN  IF IsArray(routes) THEN Put(n1, "routes", Arr([i \in 1..Len(routes.v) |-> SetRoute(routes.v[i])]))
             ELSE n1
setModuleVersionInFlow(flow, moduleId, version) ==
    [i \in 1..Len(flow) |-> SetVersionNode(flow[i], moduleId, version)]

RECURSIVE VisitedNodes(_, _)
\* the nodes the three repairs above visit, with their paths: the object items of the
\* flow and of the flows of the routes of each
VisitedUnder(node, pos) ==
    LET routes == Get(node, "routes") IN
    IF IsArray(routes)
    THEN UNION {IF IsArray(OptGet(routes.v[r], "flow"))
                THEN VisitedNodes(Get(routes.v[r], "flow").v, pos \o <<r - 1>>)
                ELSE {} : r \in 1..Len(routes.v)}
    ELSE {}
VisitedNodes(flow, pathPrefix) ==
    UNION {IF IsObjectLike(flow[i])
           THEN {[node |-> flow[i], pos |-> pathPrefix \o <<i - 1>>]}
                    \cup VisitedUnder(flow[i], pathPrefix \o <<i - 1>>)
           ELSE {} : i \in 1..Len(flow)}
\* the count setModuleVersionInFlow returns
UpdatedCount(flow, moduleId) ==
    Cardinality({n \in VisitedNodes(flow, <<>>) : IsStr(Get(n.node, "module"), moduleId)})
\* the count stripModuleVersionsInFlow returns
StrippedCount(flow) ==
    Cardinality({n \in VisitedNodes(flow, <<>>) : Get(n.node, "version") # Undefined})

-----------------------------------------------------------------------------
(* Step catalog (db.getModule) and validate_scenario *)

Param(name, required) == [name |-> name, required |-> required]

\* The rows of the modules table for the step ids the model uses: type and the
\* parameters column, as ModuleScraper.getModuleCatalog gives them to insertModule.
Catalog ==
    "gateway:CustomWebHook" :>
        [type |-> "trigger",
         parameters |-> <<Param("name", TRUE), Param("dataStructure", FALSE)>>] @@
    "http:ActionSendData" :>
        [type |-> "action",
         parameters |-> <<Param("method", TRUE), Param("url", TRUE), Param("headers", FALSE),
                          Param("queryString", FALSE), Param("body", FALSE),
                          Param("bodyType", FALSE)>>] @@
    "json:ParseJSON" :>
        [type |-> "action",
         parameters |-> <<Param("json", TRUE), Param("dataStructure", FALSE)>>] @@
    "openai:ActionCreateCompletion" :>
        [type |-> "action",
         parameters |-> <<Param("model", TRUE), Param("messages", TRUE),
                          Param("temperature", FALSE), Param("maxTokens", FALSE),
                          Param("responseFormat", FALSE), Param("tools", FALSE)>>] @@
    "slack:ActionPostMessage" :>
        [type |-> "action",
         parameters |-> <<Param("channel", TRUE), Param("text", TRUE), Param("username", FALSE),
                          Param("iconEmoji", FALSE), Param("iconUrl", FALSE),
                          Param("blocks", FALSE), Param("threadTs", FALSE)>>] @@
    "builtin:BasicRouter" :>
        [type |-> "action", parameters |-> <<Param("routes", TRUE)>>] @@
    "builtin:Schedule" :>
        [type |-> "trigger",
         parameters |-> <<Param("interval", TRUE), Param("cron", FALSE)>>]

\* db.getModule(moduleId) returns a row
HasModule(moduleId) == moduleId \in DOMAIN Catalog

\* an entry of the errors list; the fields are the parts of the message text
Err(kind, pos, module, param) == [kind |-> kind, pos |-> pos, module |-> module, param |-> param]
Warn(kind, pos, module) == [kind |-> kind, pos |-> pos, module |-> module]

NoFindings == [threw |-> FALSE, errors |-> <<>>, warnings |-> <<>>, validated |-> <<>>]
Findings(errors, warnings, validated) ==
    [threw |-> FALSE, errors |-> errors, warnings |-> warnings, validated |-> validated]
\* a run that ends at the first part reporting an error
ThenUnlessErrors(a, b) ==
    IF a.threw \/ a.errors # <<>> THEN a
    ELSE [threw |-> b.threw, errors |-> b.errors,
          warnings |-> a.warnings \o b.warnings, validated |-> a.validated \o b.validated]
\* the effect of running a after which b runs, unless a threw
Then(a, b) ==
    IF a.threw THEN a
    ELSE [threw |-> b.threw, errors |-> a.errors \o b.errors,
          warnings |-> a.warnings \o b.warnings, validated |-> a.validated \o b.validated]

\* a required-parameter check that reads the parameters map only
HasParamInParameters(flowModule, name) ==
    OptGet(Get(flowModule, "parameters"), name) # Undefined
\* hasParam of the required-parameter check
HasParam(flowModule, name) ==
    \/ OptGet(Get(flowModule, "parameters"), name) # Undefined
    \/ OptGet(Get(flowModule, "mapper"), name) # Undefined

RECURSIVE validateFlowFrom(_, _, _)
\* the body of the loop of validateFlow for flow[i], at path pos
ValidateNode(flowModule, pos) ==
    IF ~IsObjectLike(flowModule) THEN Findings(<<Err("not_object", pos, "", "")>>, <<>>, <<>>)
    ELSE LET m == Get(flowModule, "module") IN
    IF ~Truthy(m) \/ ~IsString(m)
    THEN Findings(<<Err("missing_module", pos, "", "")>>, <<>>, <<>>)
    ELSE
    LET id == m.v
        idWarning == IF Get(flowModule, "id") = Undefined
                     THEN <<Warn("missing_id", pos, id)>> ELSE <<>>
    IN
    IF ~HasModule(id)
    THEN Findings(<<Err("unknown_module", pos, id, "")>>, idWarning, <<>>)
    ELSE
    LET version == Get(flowModule, "version")
        verified == id \in DOMAIN VERIFIED_MODULE_VERSIONS
        versionWarning ==
            IF version # Undefined
            THEN IF verified /\ ~(version.k = "num" /\ version.v = VERIFIED_MODULE_VERSIONS[id])
                 THEN <<Warn("version_mismatch", pos, id)>>
                 ELSE IF ~verified THEN <<Warn("version_unverified", pos, id)>> ELSE <<>>
            ELSE <<>>
        problemInfo == getProblematicModuleInfo(id)
        problemWarning == IF problemInfo # NoInfo THEN <<Warn("problematic", pos, id)>> ELSE <<>>
        registryWarning ==
            IF verified /\ version = Undefined THEN <<>>
            ELSE IF ~verified /\ problemInfo = NoInfo
                 THEN <<Warn("not_verified", pos, id)>> ELSE <<>>
        params == Catalog[id].parameters
        routes == Get(flowModule, "routes")
        ParamError(param) ==
            IF ~param.required THEN <<>>
            ELSE IF id = "builtin:BasicRouter" /\ param.name = "routes"
                 THEN IF ~Truthy(routes) \/ ~IsArray(routes) \/ Len(routes.v) = 0
                      THEN <<Err("router_routes", pos, id, "")>> ELSE <<>>
                 ELSE IF ~HasParam(flowModule, param.name)
                      THEN <<Err("missing_param", pos, id, param.name)>> ELSE <<>>
        ParamErrors[n \in 0..Len(params)] ==
            IF n = 0 THEN <<>> ELSE ParamErrors[n - 1] \o ParamError(params[n])
        RouteFindings[r \in 0..Len(routes.v)] ==
            IF r = 0 THEN NoFindings
            ELSE Then(RouteFindings[r - 1],
                      LET route == routes.v[r] IN
                      IF IsNullish(route) THEN [NoFindings EXCEPT !.threw = TRUE]
                      ELSE IF IsArray(Get(route, "flow"))
                           THEN validateFlowFrom(Get(route, "flow").v, pos \o <<r - 1>>, 1)
                           ELSE NoFindings)
    IN  Then(Findings(ParamErrors[Len(params)],
                      idWarning \o versionWarning \o problemWarning \o registryWarning,
                      <<id>>),
             IF IsArray(routes) THEN RouteFindings[Len(routes.v)] ELSE NoFindings)

\* validateFlow(flow, pathPrefix) from index i on (1-based); a path is the sequence of
\* the indices in Flow[i].routes[r][j]...
validateFlowFrom(flow, pathPrefix, i) ==
    IF i > Len(flow) THEN NoFindings
    ELSE Then(ValidateNode(flow[i], pathPrefix \o <<i - 1>>),
              validateFlowFrom(flow, pathPrefix, i + 1))
validateFlow(flow, pathPrefix) == validateFlowFrom(flow, pathPrefix, 1)

RECURSIVE extractAllFlowModules(_, _)
\* a collection of step ids that does not descend into routes
ExtractNodeShallow(node, pos) ==
    IF ~IsObjectLike(node) THEN <<>>
    ELSE LET m == Get(node, "module")
         IN  IF IsString(m) /\ m.v # "" THEN <<[module |-> m.v, path |-> pos]>> ELSE <<>>
\* extractAllFlowModules(flow, pathPrefix): sequence of [module, path]
ExtractNode(node, pos) ==
    IF ~IsObjectLike(node) THEN <<>>
    ELSE LET m == Get(node, "module")
             routes == Get(node, "routes")
             \* node.module.trim() is non-empty: no id of the model is blank
             own == IF IsString(m) /\ m.v # "" THEN <<[module |-> m.v, path |-> pos]>> ELSE <<>>
             Sub[r \in 0..Len(routes.v)] ==
                 IF r = 0 THEN <<>>
                 ELSE Sub[r - 1] \o
                      (LET routeFlow == OptGet(routes.v[r], "flow") IN
                       IF IsArray(routeFlow)
                       THEN extractAllFlowModules(routeFlow.v, pos \o <<r - 1>>)
                       ELSE <<>>)
         IN  own \o (IF IsArray(routes) THEN Sub[Len(routes.v)] ELSE <<>>)
extractAllFlowModules(flow, pathPrefix) ==
    LET Acc[i \in 0..Len(flow)] ==
            IF i = 0 THEN <<>> ELSE Acc[i - 1] \o ExtractNode(flow[i], pathPrefix \o <<i - 1>>)
    IN  Acc[Len(flow)]

\* the keys of a Map filled from a sequence, in insertion order
RECURSIVE DistinctInOrder(_)
DistinctInOrder(s) ==
    IF s = <<>> THEN <<>>
    ELSE LET rest == DistinctInOrder(SubSeq(s, 1, Len(s) - 1))
             x == s[Len(s)]
         IN  IF \E i \in 1..Len(rest) : rest[i] = x THEN rest ELSE Append(rest, x)

NoLive == [ok |-> FALSE]
Live(ids) == [ok |-> TRUE, ids |-> ids]
LiveHas(live, id) == \E i \in 1..Len(live.ids) : live.ids[i] = id

\* a verdict that tolerates a single error
ValidUnlessSeveral(errors) == Len(errors) <= 1
\* valid: errors.length === 0
IsValid(errors) == Len(errors) = 0

\* validate_scenario(blueprint) with the parsed blueprint, hasValidApiKey() = keyValid
\* and fetchLiveModuleIds resolving to live: the tool result
validate_scenario(parsed, keyValid, live) ==
    IF parsed.k = "invalid" \/ IsNullish(parsed) THEN [isError |-> TRUE]
    ELSE
    LET flow == Get(parsed, "flow")
        hasFlow == Truthy(flow) /\ IsArray(flow)
        walk == validateFlow(flow.v, <<>>)
        first == OptGet(flow.v[1], "module")
        structural ==
            IF ~hasFlow
            THEN Findings(<<Err("no_flow", <<>>, "", "")>>, <<>>, <<>>)
            ELSE Then(Findings(IF Len(flow.v) = 0
                               THEN <<Err("empty_flow", <<>>, "", "")>> ELSE <<>>, <<>>, <<>>),
                 Then(walk,
                      Findings(<<>>,
                               IF /\ Len(flow.v) > 0
                                  /\ Truthy(first)
                                  /\ IsString(first)
                                  /\ HasModule(first.v)
                                  /\ Catalog[first.v].type # "trigger"
                               THEN <<Warn("first_not_trigger", <<>>, "")>> ELSE <<>>,
                               <<>>)))
        metadataWarning == IF ~Truthy(Get(parsed, "metadata"))
                           THEN <<Warn("missing_metadata", <<>>, "")>> ELSE <<>>
        allModules == extractAllFlowModules(flow.v, <<>>)
        byModule == DistinctInOrder([i \in 1..Len(allModules) |-> allModules[i].module])
        PathsOf(id) == LET at == SelectSeq(allModules, LAMBDA e : e.module = id)
                       IN  [i \in 1..Len(at) |-> at[i].path]
        liveChecked == IsArray(flow) /\ keyValid /\ live.ok
        NotLive(id) == ~LiveHas(live, id)
        unavailable == IF liveChecked THEN SelectSeq(byModule, NotLive) ELSE <<>>
        Suggestion(id) == resolveClosestLiveModule(id, live.ids)
        \* Module "<id>" is not available ... [Suggested replacement: "<suggestion>".]
        liveErrors == [i \in 1..Len(unavailable) |->
                          [kind |-> "not_available", pos |-> <<>>, module |-> unavailable[i],
                           param |-> "", suggestion |-> Suggestion(unavailable[i])]]
        IsProblematicOnly(id) ==
            /\ getProblematicModuleInfo(id) # NoInfo
            /\ ~\E i \in 1..Len(unavailable) : unavailable[i] = id
        problematic == IF IsArray(flow) THEN SelectSeq(byModule, IsProblematicOnly) ELSE <<>>
        errors == structural.errors \o liveErrors
    IN  IF structural.threw THEN [isError |-> TRUE]
        ELSE [isError |-> FALSE,
              valid |-> IsValid(errors),
              errors |-> errors,
              warnings |-> structural.warnings \o metadataWarning,
              modulesValidated |-> structural.validated,
              liveCatalogChecked |-> liveChecked,
              verifiedRegistryChecked |-> IsArray(flow),
              incompatibleModules |->
                  [i \in 1..Len(unavailable) |->
                      [module |-> unavailable[i], suggestion |-> Suggestion(unavailable[i]),
                       problematic |-> FALSE, paths |-> PathsOf(unavailable[i])]] \o
                  [i \in 1..Len(problematic) |->
                      [module |-> problematic[i],
                       suggestion |-> getProblematicModuleInfo(problematic[i]),
                       problematic |-> TRUE, paths |-> PathsOf(problematic[i])]]]

-----------------------------------------------------------------------------
(* Blueprints the tools are called with *)

\* longest root flow
MaxFlowLen == 2

SeqsUpTo(S, n) == UNION {[1..len -> S] : len \in 0..n}

Node(module, fields) == Put(Obj(fields), "module", Str(module))
Route(flow) == Obj([flow |-> Arr(flow)])
RouteWithFilter(flow) == Obj([flow |-> Arr(flow), filter |-> Obj([name |-> Str("f")])])
WithRoutes(node, routes) == Put(node, "routes", Arr(routes))
\* the blueprints with a root flow from flows, the shortest of them also with a
\* metadata block, and the JSON texts that are no such object
BlueprintsOver(flows) ==
    {Obj([flow |-> Arr(f)]) : f \in flows}
    \cup {Obj([flow |-> Arr(f), metadata |-> Obj([version |-> Num(1)])]) :
             f \in {g \in flows : Len(g) <= 1}}
    \cup {Null, Num(7), EmptyObj, Obj([flow |-> Str("x")]), InvalidJson}

(* inputs of validate_scenario *)
WebHookOk == Node("gateway:CustomWebHook", [id |-> Num(1), parameters |-> Obj([name |-> Str("Test")])])
WebHookMapped == Node("gateway:CustomWebHook", [id |-> Num(2), mapper |-> Obj([name |-> Null])])
WebHookBare == Node("gateway:CustomWebHook", [id |-> Num(1), parameters |-> EmptyObj])
SlackPinned ==
    Node("slack:ActionPostMessage",
         [version |-> Num(2), parameters |-> Obj([channel |-> Str("c")]),
          mapper |-> Obj([text |-> Str("t")])])
OpenAiOk ==
    Node("openai:ActionCreateCompletion",
         [id |-> Num(3), parameters |-> Obj([model |-> Str("m"), messages |-> Arr(<<>>)])])
UnknownStep == Node("nonexistent:Module", [id |-> Num(1)])
NoModule == Obj([id |-> Num(4), parameters |-> Null])
Router(routes) == WithRoutes(Node("builtin:BasicRouter", [id |-> Num(5)]), routes)

ValidateLeaves ==
    {Null, WebHookOk, WebHookMapped, WebHookBare, SlackPinned, OpenAiOk, UnknownStep, NoModule}
ValidateNested == {WebHookOk, WebHookBare, UnknownStep, Router(<<Route(<<UnknownStep>>)>>)}
ValidateRouteLists ==
    {<<>>, <<Null>>}
    \cup {<<Route(<<n>>)>> : n \in ValidateNested}
    \cup {<<Route(<<WebHookBare>>), RouteWithFilter(<<WebHookOk>>)>>,
          <<RouteWithFilter(<<WebHookOk>>), Route(<<WebHookBare>>)>>}
ValidateRouters ==
    {Router(r) : r \in ValidateRouteLists}
    \cup {Node("builtin:BasicRouter", [id |-> Num(5), parameters |-> Obj([routes |-> Arr(<<>>)])])}
    \cup {WithRoutes(UnknownStep, <<Route(<<n>>)>>) : n \in {WebHookBare, UnknownStep, Node("other:Unknown", <<>>)}}
    \cup {WithRoutes(NoModule, <<Route(<<UnknownStep>>)>>),
          WithRoutes(WebHookOk, <<Route(<<UnknownStep>>)>>)}
ValidateBlueprints == BlueprintsOver(SeqsUpTo(ValidateLeaves \cup ValidateRouters, MaxFlowLen))

\* outcomes of fetchLiveModuleIds seen by validate_scenario
ValidateLive ==
    {NoLive,
     Live(<<"gateway:CustomWebHook", "slack:ActionPostMessage", "builtin:BasicRouter",
            "openai:ActionCreateCompletion">>),
     Live(<<"builtin:BasicRouter", "http:ActionSendData">>)}

(* inputs of the healing steps *)
HttpPinned == Node("http:ActionSendData", [version |-> Num(1)])
HttpBare == Node("http:ActionSendData", [metadata |-> Obj([designer |-> Obj([x |-> Num(9), y |-> Num(9)])])])
UnknownPinned == Node("other:Unknown", [version |-> Num(2), metadata |-> EmptyObj])
UnknownBare == Node("other:Unknown", <<>>)
ScheduleDaily == Node("builtin:Schedule", [parameters |-> Obj([interval |-> Str("every day")])])
ScheduleMinutes ==
    Node("builtin:Schedule", [version |-> Num(1), parameters |-> Obj([interval |-> Str("2 min")])])
NumericModule == Obj([module |-> Num(5), version |-> Num(2)])
BadMetadata == Node("gateway:CustomWebHook", [metadata |-> Str("x")])

HealLeaves ==
    {Null, Num(7), HttpPinned, HttpBare, UnknownPinned, UnknownBare, ScheduleDaily,
     ScheduleMinutes, NumericModule, BadMetadata}
HealNested ==
    {HttpPinned, UnknownPinned, ScheduleDaily,
     WithRoutes(UnknownPinned, <<RouteWithFilter(<<ScheduleMinutes, HttpPinned>>)>>)}
HealRouteLists ==
    {<<>>, <<Null>>, <<Num(7)>>, <<EmptyObj>>}
    \cup {<<Route(<<n>>)>> : n \in HealNested}
    \cup {<<RouteWithFilter(<<HttpBare>>), Route(<<UnknownPinned, Null>>)>>}
HealRouters ==
    {Router(r) : r \in HealRouteLists}
    \cup {WithRoutes(NumericModule, <<Route(<<HttpPinned>>)>>),
          WithRoutes(ScheduleDaily, <<Route(<<HttpPinned>>)>>),
          Put(UnknownBare, "routes", Str("x"))}
HealBlueprints == BlueprintsOver(SeqsUpTo(HealLeaves \cup HealRouters, MaxFlowLen))

-----------------------------------------------------------------------------
(* The tool calls *)

NoReport == [isError |-> FALSE, called |-> FALSE]
NoResult == [kind |-> "none"]
NoFailure == [attempt |-> 0]
\* no create_scenario call is in progress
CreateIdle ==
    /\ teamIdGiven = TRUE
    /\ parsedTree = Null
    /\ schedulingConfig = OnDemand
    /\ attempt = 0
    /\ submissions = 0
    /\ triedVersionFallbacks = {}
    /\ strippedVersionsForRetry = FALSE
    /\ remappedModules = <<>>
    /\ failedModulesOuter = <<>>
    /\ lastFailure = NoFailure
    /\ result = NoResult
NoHeal == [threw |-> FALSE, called |-> FALSE]
\* the variables of the resolver, of the catalog cache and of the route permutation,
\* in the behaviours that do not use them
NoEntry == [present |-> FALSE]
ResolverIdle ==
    /\ stepId = ""
    /\ permutedIds = <<>>
    /\ suggestion = ""
    /\ suggestionPermuted = ""
CacheIdle ==
    /\ cache = NoEntry
    /\ now = 0
    /\ calls = 0
    /\ requests = 0
    /\ fetched = NoLive
PermuteIdle ==
    /\ permutedBlueprint = Null
    /\ permutedReport = NoReport
CompatIdle ==
    /\ requestedIds = <<>>
    /\ compatibility = NoReport
\* the logger at its default level, an empty database, no reader of the live catalog
LoggerIdle ==
    /\ currentLevel = "info"
    /\ stderr = <<>>
    /\ stdout = <<>>
    /\ logCalls = <<>>
DbIdle ==
    /\ modules = <<>>
    /\ modulesFts = <<>>
    /\ got = Undefined
    /\ inserted = <<>>
AuxIdle == LoggerIdle /\ DbIdle /\ readers = <<>>

\* validate_scenario is called with a blueprint; the live catalog is only fetched
\* with a valid API key
InitValidate ==
    /\ tool = "validate"
    /\ pc = "start"
    /\ blueprint \in ValidateBlueprints
    /\ apiKeyValid \in BOOLEAN
    /\ liveIds \in IF apiKeyValid THEN ValidateLive ELSE {NoLive}
    /\ report = NoReport
    /\ healed = NoHeal
    /\ healedTwice = NoHeal
    /\ reconciled = <<>>
    /\ CreateIdle
    /\ ResolverIdle /\ CacheIdle /\ PermuteIdle /\ CompatIdle /\ AuxIdle

ValidateScenario ==
    /\ tool = "validate"
    /\ pc = "start"
    /\ report' = validate_scenario(blueprint, apiKeyValid, liveIds)
    /\ pc' = "done"
    /\ UNCHANGED <<auxVars, resolverVars, cacheVars, permuteVars, compatVars, tool, blueprint, apiKeyValid, liveIds, healVars, createVars>>

NextValidate == ValidateScenario
SpecValidate == InitValidate /\ [][NextValidate]_vars

\* the healing steps applied to a blueprint, and applied again to their result
InitHeal ==
    /\ tool = "heal"
    /\ pc = "start"
    /\ blueprint \in HealBlueprints
    /\ apiKeyValid = TRUE
    /\ liveIds = NoLive
    /\ report = NoReport
    /\ healed = NoHeal
    /\ healedTwice = NoHeal
    /\ reconciled = <<>>
    /\ CreateIdle
    /\ ResolverIdle /\ CacheIdle /\ PermuteIdle /\ CompatIdle /\ AuxIdle

HealOnce ==
    /\ tool = "heal"
    /\ pc = "start"
    /\ blueprint.k # "invalid"
    /\ healed' = Heal(blueprint)
    /\ pc' = "healed"
    /\ UNCHANGED <<auxVars, resolverVars, cacheVars, permuteVars, compatVars, tool, blueprint, apiKeyValid, liveIds, report, healedTwice, reconciled, createVars>>

HealAgain ==
    /\ tool = "heal"
    /\ pc = "healed"
    /\ ~healed.threw
    /\ healedTwice' = Heal(healed.tree)
    /\ pc' = "rehealed"
    /\ UNCHANGED <<auxVars, resolverVars, cacheVars, permuteVars, compatVars, tool, blueprint, apiKeyValid, liveIds, report, healed, reconciled, createVars>>

\* injectVerifiedVersions applied to the root flow as parsed
InjectVersions ==
    /\ tool = "heal"
    /\ pc = "start"
    /\ IsArray(OptGet(blueprint, "flow"))
    /\ reconciled' = injectVerifiedVersions(Get(blueprint, "flow").v)
    /\ pc' = "injected"
    /\ UNCHANGED <<auxVars, resolverVars, cacheVars, permuteVars, compatVars, tool, blueprint, apiKeyValid, liveIds, report, healed, healedTwice, createVars>>

NextHeal == HealOnce \/ HealAgain \/ InjectVersions
SpecHeal == InitHeal /\ [][NextHeal]_vars

-----------------------------------------------------------------------------
(* Properties of validation and healing *)

RECURSIVE NodesOfFlow(_, _)
\* the flow items under a node: the items of the flow of each of its routes
NodesUnder(node, pos) ==
    IF IsObjectLike(node) /\ IsArray(Get(node, "routes"))
    THEN LET routes == Get(node, "routes").v
         IN  UNION {IF IsArray(OptGet(routes[r], "flow"))
                    THEN NodesOfFlow(Get(routes[r], "flow").v, pos \o <<r - 1>>)
                    ELSE {} : r \in 1..Len(routes)}
    ELSE {}
\* every flow item of a flow at every depth, with its path
NodesOfFlow(flow, pathPrefix) ==
    UNION {{[node |-> flow[i], pos |-> pathPrefix \o <<i - 1>>]}
               \cup NodesUnder(flow[i], pathPrefix \o <<i - 1>>) : i \in 1..Len(flow)}
\* the flow items of a blueprint; none when it has no flow array
NodesOf(parsed) ==
    IF IsArray(OptGet(parsed, "flow")) THEN NodesOfFlow(Get(parsed, "flow").v, <<>>) ELSE {}

HasStepId(node) == IsObjectLike(node) /\ IsString(Get(node, "module")) /\ Get(node, "module").v # ""
StepId(node) == Get(node, "module").v
\* name is a key of the map in the node's field
PresentIn(node, field, name) == Get(node, field).k = "obj" /\ name \in DOMAIN Get(node, field).v
Supplied(node, name) == PresentIn(node, "parameters", name) \/ PresentIn(node, "mapper", name)
IsStructuralRoutes(id, name) == id = "builtin:BasicRouter" /\ name = "routes"
RequiredParams(id) ==
    {Catalog[id].parameters[i].name : i \in {j \in 1..Len(Catalog[id].parameters) :
                                                Catalog[id].parameters[j].required}}
\* the text of error e includes the step id
Mentions(e, id) == e.module # "" /\ Includes(Chars[e.module], Chars[id])
ErrorsOf(r) == {r.errors[i] : i \in 1..Len(r.errors)}
Validated == tool = "validate" /\ pc = "done"

\* every node is an object with a catalog-known id and its required parameters, a
\* router has a non-empty routes list, every route is an object
WellFormedNode(node) ==
    /\ HasStepId(node)
    /\ HasModule(StepId(node))
    /\ \A name \in RequiredParams(StepId(node)) :
          IF IsStructuralRoutes(StepId(node), name)
          THEN IsArray(Get(node, "routes")) /\ Len(Get(node, "routes").v) > 0
          ELSE Supplied(node, name)
    /\ IsArray(Get(node, "routes")) =>
          \A r \in 1..Len(Get(node, "routes").v) : Get(node, "routes").v[r].k = "obj"
WellFormedBlueprint(parsed) ==
    /\ IsArray(OptGet(parsed, "flow"))
    /\ Len(Get(parsed, "flow").v) > 0
    /\ \A n \in NodesOf(parsed) : WellFormedNode(n.node)

AllStepsLive(bp) ==
    liveIds.ok => \A n \in NodesOf(bp) : HasStepId(n.node) => LiveHas(liveIds, StepId(n.node))
C4_UnknownStepReported ==
    (Validated /\ ~report.isError) =>
        \A n \in NodesOf(blueprint) :
            (HasStepId(n.node) /\ ~HasModule(StepId(n.node))) =>
                /\ ~report.valid
                /\ \E e \in ErrorsOf(report) : Mentions(e, StepId(n.node))

\* C5: for every node with a catalog-known step id and every required parameter of
\* its schema other than the router's routes, the report has a 'Missing required
\* parameter' error for that node and parameter iff the name is a key of neither the
\* node's parameters nor its mapper; such an error makes valid false.
C5_MissingParamIffAbsent ==
    (Validated /\ ~report.isError) =>
        \A n \in NodesOf(blueprint) :
            (HasStepId(n.node) /\ HasModule(StepId(n.node))) =>
                \A name \in RequiredParams(StepId(n.node)) :
                    ~IsStructuralRoutes(StepId(n.node), name) =>
                        LET reported ==
                              \E e \in ErrorsOf(report) :
                                  /\ e.kind = "missing_param"
                                  /\ e.pos = n.pos
                                  /\ e.module = StepId(n.node)
                                  /\ e.param = name
                        IN  /\ reported <=> ~Supplied(n.node, name)
                            /\ reported => ~report.valid

\* C6: whatever the shape of a blueprint that parses as JSON, validate_scenario returns a
\* validation report, never an isError result.
C6_NeverIsError == (Validated /\ blueprint.k # "invalid") => ~report.isError

StructuralKinds ==
    {"not_object", "missing_module", "unknown_module", "router_routes", "missing_param",
     "no_flow", "empty_flow"}
C8_HealIdempotent ==
    (tool = "heal" /\ pc = "rehealed") =>
        (~healedTwice.threw /\ healedTwice.tree = healed.tree)

\* a blueprint that healing changes in every way: a schedule node was extracted,
\* metadata injected, a filter stripped and versions reconciled
C8_Witness ==
    /\ tool = "heal"
    /\ pc = "rehealed"
    /\ healed.scheduling # OnDemand
    /\ Get(blueprint, "metadata") = Undefined
    /\ \E n \in NodesOf(blueprint) :
          /\ IsArray(Get(n.node, "routes"))
          /\ \E r \in 1..Len(Get(n.node, "routes").v) :
                Get(Get(n.node, "routes").v[r], "filter") # Undefined
    /\ \E n \in NodesOf(blueprint) : n.node = HttpPinned
    /\ \E n \in NodesOf(blueprint) : n.node = UnknownPinned

ScheduleNodes(parsed) == {n \in NodesOf(parsed) : IsScheduleModule(n.node)}
\* C10: after healing no builtin:Schedule node remains in the root flow or in any
\* nested route flow.
C10_NoScheduleRemains ==
    (tool = "heal" /\ pc = "healed" /\ ~healed.threw) => ScheduleNodes(healed.tree) = {}


\* the kinds of finding that validate_scenario pushes to warnings
WarningKinds ==
    {"missing_id", "first_not_trigger", "version_mismatch", "version_unverified",
     "not_verified", "problematic", "missing_metadata"}
KindsOf(findings) == {findings[i].kind : i \in 1..Len(findings)}

\* C18: in every validation report valid is true exactly when errors is empty; the
\* warning kinds appear in warnings only, a blueprint without metadata is warned
\* about, and no number of warnings makes valid false.
C18_ValidIffNoErrors ==
    (Validated /\ ~report.isError) =>
        /\ report.valid <=> report.errors = <<>>
        /\ KindsOf(report.errors) \cap WarningKinds = {}
        /\ KindsOf(report.warnings) \subseteq WarningKinds
        /\ ~Truthy(Get(blueprint, "metadata")) => "missing_metadata" \in KindsOf(report.warnings)
C18_Witness ==
    /\ Validated /\ ~report.isError
    /\ report.valid
    /\ {"missing_metadata", "version_mismatch", "problematic"} \subseteq KindsOf(report.warnings)

(* properties of the version of a node that arrives unpinned *)
Injected == tool = "heal" /\ pc = "injected"
\* the nodes of the blueprint that arrive as objects without a version field
ArrivedUnpinned == {n \in NodesOf(blueprint) : IsObjectLike(n.node) /\ Get(n.node, "version") = Undefined}
\* the node that injectVerifiedVersions leaves at the path of n
Reconciled(n) == CHOOSE m \in NodesOfFlow(reconciled, <<>>) : m.pos = n.pos
InRegistry(node) == HasStepId(node) /\ StepId(node) \in DOMAIN VERIFIED_MODULE_VERSIONS

-----------------------------------------------------------------------------
(* create_scenario: credential checks, healing, live-catalog remap, retry loop *)

\* a retry budget one larger
maxAttemptsRaised == 5 + 1
maxAttempts == 5

\* a failed axios.post: the HTTP status (NoStatus when there was no response), the code
\* of the error payload, and what extractIm007ModuleId and the version pattern of
\* extractIm007Version find in the payload
NoStatus == 0
NoText == ""
NoNumber == -1
ErrorResponse(status, code, module, version) ==
    [status |-> status, code |-> code, module |-> module, versionText |-> version]
\* extractIm007ModuleId(data): the id after 'Module not found', NoText for null
extractIm007ModuleId(error) == error.module
\* extractIm007Version(data): the number in version '<n>' when positive, else NoNumber
extractIm007Version(error) ==
    IF error.versionText = NoNumber \/ error.versionText <= 0 THEN NoNumber
    ELSE error.versionText

Failure(message, error) ==
    [kind |-> "failed", message |-> message, error |-> error,
     failedModules |-> <<>>, remappedModules |-> <<>>]
NoError == ErrorResponse(NoStatus, NoText, NoText, NoNumber)

\* the catch block of create_scenario for a failed submission
CatchResult(error, failedModules) ==
    IF error.status = 401 THEN Failure("Authentication failed", error)
    ELSE IF error.status = 403 THEN Failure("Access denied", error)
    ELSE IF error.status = 400 /\ error.code = "IM007"
         THEN [Failure("Failed to create scenario (IM007)", error)
                  EXCEPT !.failedModules = failedModules]
         ELSE Failure("Failed to create scenario (HTTP)", error)

\* the keys of triedVersionFallbacks: `${module}@verified` and `${module}@${version}`,
\* a version being a positive number
VerifiedKey(module) == <<module, 0>>
FallbackKey(module, version) == <<module, version>>

FlowOf(p) == Get(p, "flow")
ModulesOf(p) ==
    LET all == extractAllFlowModules(FlowOf(p).v, <<>>)
    IN  DistinctInOrder([i \in 1..Len(all) |-> all[i].module])

\* the head of the retry loop: the next submission is made while attempt < maxAttempts;
\* leaving the loop without a response gives the 'after retry attempts' failure
LoopHead ==
    IF attempt < maxAttempts
    THEN /\ attempt' = attempt + 1
         /\ submissions' = submissions + 1
         /\ pc' = "posting"
         /\ result' = result
    ELSE /\ attempt' = attempt
         /\ submissions' = submissions
         /\ pc' = "done"
         /\ result' = Failure("Failed to create scenario after retry attempts.", NoError)

(* inputs of create_scenario *)
SlackRenamed == Node("slack:PostMessage", [version |-> Num(4)])
CreateBlueprints ==
    {Obj([flow |-> Arr(<<WebHookOk, HttpPinned, Router(<<RouteWithFilter(<<SlackRenamed>>)>>)>>)]),
     Obj([flow |-> Arr(<<ScheduleDaily, WebHookOk>>)]),
     Obj([flow |-> Arr(<<UnknownBare>>)]),
     EmptyObj, Null, InvalidJson}
\* outcomes of fetchLiveModuleIds seen by create_scenario
CreateLive ==
    {NoLive,
     Live(<<"gateway:CustomWebHook", "http:ActionSendData", "builtin:BasicRouter",
            "slack:ActionPostMessage", "openai:ActionCreateCompletion">>)}
\* the rejections of a submission: no response at all, or a status with a payload
ErrorResponses ==
    {NoError}
    \cup {ErrorResponse(400, code, module, version) :
             code \in {"IM007", "other"},
             module \in {NoText, "http:ActionSendData", "slack:PostMessage",
                         "openai:ActionEditImage", "email:ActionSendEmail"},
             version \in {NoNumber, 0, 3}}
    \cup {ErrorResponse(status, code, module, NoNumber) :
             status \in {401, 403, 500},
             code \in {"IM007", "other"},
             module \in {NoText, "openai:ActionEditImage"}}

InitCreate ==
    /\ tool = "create"
    /\ pc = "start"
    /\ blueprint \in CreateBlueprints
    /\ apiKeyValid \in BOOLEAN
    /\ liveIds \in CreateLive
    /\ report = NoReport
    /\ healed = NoHeal
    /\ healedTwice = NoHeal
    /\ reconciled = <<>>
    /\ teamIdGiven \in BOOLEAN
    /\ parsedTree = Null
    /\ schedulingConfig = OnDemand
    /\ attempt = 0
    /\ submissions = 0
    /\ triedVersionFallbacks = {}
    /\ strippedVersionsForRetry = FALSE
    /\ remappedModules = <<>>
    /\ failedModulesOuter = <<>>
    /\ lastFailure = NoFailure
    /\ result = NoResult
    /\ ResolverIdle /\ CacheIdle /\ PermuteIdle /\ CompatIdle /\ AuxIdle

\* a team id taken as given whatever was passed
AnyTeamId(given) == TRUE
\* resolvedTeamId is truthy: teamId or MAKE_TEAM_ID was given
HasTeamId(given) == given

\* create_scenario up to the await of fetchLiveModuleIds
CreateScenarioBegin ==
    /\ tool = "create"
    /\ pc = "start"
    /\ \E h \in {Heal(blueprint)} :
       IF ~apiKeyValid
       THEN /\ result' = Failure("MAKE_API_KEY not configured", NoError)
            /\ pc' = "done"
            /\ UNCHANGED <<parsedTree, schedulingConfig>>
       ELSE IF ~HasTeamId(teamIdGiven)
       THEN /\ result' = Failure("Team ID required", NoError)
            /\ pc' = "done"
            /\ UNCHANGED <<parsedTree, schedulingConfig>>
       ELSE IF blueprint.k = "invalid"
       THEN /\ result' = Failure("Invalid blueprint JSON", NoError)
            /\ pc' = "done"
            /\ UNCHANGED <<parsedTree, schedulingConfig>>
       ELSE IF h.threw
       THEN \* a TypeError reaches the catch block: no response, no status
            /\ result' = CatchResult(NoError, failedModulesOuter)
            /\ pc' = "done"
            /\ UNCHANGED <<parsedTree, schedulingConfig>>
       ELSE /\ parsedTree' = h.tree
            /\ schedulingConfig' = h.scheduling
            /\ pc' = "fetching"
            /\ result' = result
    /\ UNCHANGED <<auxVars, resolverVars, cacheVars, permuteVars, compatVars, tool, blueprint, apiKeyValid, liveIds, validateVars, healVars, teamIdGiven,
                   attempt, submissions, triedVersionFallbacks, strippedVersionsForRetry,
                   remappedModules, failedModulesOuter, lastFailure>>

\* the loop over byModule: what resolveClosestLiveModule finds for each step id that is
\* not live, and whether that goes to replacements or to unavailable
Resolutions(missing, ids) ==
    [i \in 1..Len(missing) |->
        [from |-> missing[i], to |-> resolveClosestLiveModule(missing[i], ids)]]
MissingResolved(byModule, live) ==
    Resolutions(SelectSeq(byModule, LAMBDA id : ~LiveHas(live, id)), live.ids)
IsReplacement(r) == r.to # NoSuggestion /\ r.to # r.from
\* a check that reports no id as unavailable
NeverUnavailable(r) == FALSE
IsUnavailable(r) == ~IsReplacement(r)
ReplacementMap(remapped) ==
    [id \in {remapped[i].from : i \in 1..Len(remapped)} |->
        (CHOOSE r \in {remapped[i] : i \in 1..Len(remapped)} : r.from = id).to]

\* fetchLiveModuleIds has resolved: compatibility check, auto-remap, first submission
LiveFetched ==
    /\ tool = "create"
    /\ pc = "fetching"
    /\ \E checked \in {liveIds.ok /\ IsArray(FlowOf(parsedTree))} :
       \E resolved \in {IF checked THEN MissingResolved(ModulesOf(parsedTree), liveIds)
                        ELSE <<>>} :
       \E remapped \in {SelectSeq(resolved, IsReplacement)} :
       \E unavailable \in {SelectSeq(resolved, IsUnavailable)} :
          /\ remappedModules' = remapped
          /\ parsedTree' =
                IF Len(remapped) > 0
                THEN Put(parsedTree, "flow",
                         Arr(replaceModuleIdsInFlow(FlowOf(parsedTree).v,
                                                    ReplacementMap(remapped))))
                ELSE parsedTree
          /\ IF Len(unavailable) > 0
             THEN /\ result' = Failure("Cannot deploy: modules not available", NoError)
                  /\ pc' = "done"
                  /\ UNCHANGED <<attempt, submissions>>
             ELSE LoopHead
    /\ UNCHANGED <<auxVars, resolverVars, cacheVars, permuteVars, compatVars, tool, blueprint, apiKeyValid, liveIds, validateVars, healVars, teamIdGiven,
                   schedulingConfig, triedVersionFallbacks, strippedVersionsForRetry,
                   failedModulesOuter, lastFailure>>

\* axios.post resolved: the scenario was created, possibly marked invalid by Make
PostSucceeds ==
    /\ tool = "create"
    /\ pc = "posting"
    /\ \E isinvalid \in BOOLEAN :
          result' = IF isinvalid
                    THEN [Failure("Scenario was created but is invalid", NoError)
                             EXCEPT !.remappedModules = remappedModules]
                    ELSE [kind |-> "ok", remappedModules |-> remappedModules,
                          scheduling |-> schedulingConfig, blueprint |-> parsedTree]
    /\ pc' = "done"
    /\ UNCHANGED <<auxVars, resolverVars, cacheVars, permuteVars, compatVars, tool, blueprint, apiKeyValid, liveIds, validateVars, healVars, teamIdGiven,
                   parsedTree, schedulingConfig, attempt, submissions, triedVersionFallbacks,
                   strippedVersionsForRetry, remappedModules, failedModulesOuter, lastFailure>>

\* a controller that substitutes with no regard to the attempts left
SelectRemapAlways(error) ==
    IF /\ error.status = 400 /\ extractIm007ModuleId(error) # NoText /\ liveIds.ok
       /\ IsArray(FlowOf(parsedTree))
       /\ resolveClosestLiveModule(extractIm007ModuleId(error), liveIds.ids)
             \notin {NoSuggestion, extractIm007ModuleId(error)}
    THEN "remap"
    ELSE "throw"
\* a controller that strips the pins on IM007 whatever the status is
SelectOnAnyStatus(error) ==
    IF /\ error.code = "IM007" /\ attempt < maxAttempts
       /\ IsArray(FlowOf(parsedTree)) /\ ~strippedVersionsForRetry
       /\ StrippedCount(FlowOf(parsedTree).v) > 0
    THEN "strip_versions"
    ELSE "throw"
\* a controller that knows the last resort only
SelectStripOnly(error) ==
    IF /\ error.status = 400 /\ error.code = "IM007" /\ attempt < maxAttempts
       /\ IsArray(FlowOf(parsedTree)) /\ ~strippedVersionsForRetry
       /\ StrippedCount(FlowOf(parsedTree).v) > 0
    THEN "strip_versions"
    ELSE "throw"
\* the repair the catch of the retry loop selects for a failed submission
SelectRepair(error) ==
    LET status == error.status
        im007 == error.code = "IM007"
        missingModule == extractIm007ModuleId(error)
        missingVersion == extractIm007Version(error)
        hasFlow == IsArray(FlowOf(parsedTree))
        verifiedKey == VerifiedKey(missingModule)
        fallbackVersion == missingVersion - 1
        fallbackKey == FallbackKey(missingModule, fallbackVersion)
        replacement == resolveClosestLiveModule(missingModule, liveIds.ids)
    IN  IF /\ status = 400 /\ im007 /\ missingModule # NoText /\ attempt < maxAttempts /\ hasFlow
           /\ missingModule \in DOMAIN VERIFIED_MODULE_VERSIONS
           /\ verifiedKey \notin triedVersionFallbacks
           /\ UpdatedCount(FlowOf(parsedTree).v, missingModule) > 0
        THEN "verified_version"
        ELSE IF /\ status = 400 /\ im007 /\ missingModule # NoText
                /\ getProblematicModuleInfo(missingModule) # NoInfo
        THEN "abort_problematic"
        ELSE IF /\ status = 400 /\ missingModule # NoText /\ liveIds.ok /\ attempt < maxAttempts
                /\ replacement # NoSuggestion /\ replacement # missingModule
                /\ hasFlow
        THEN "remap"
        ELSE IF /\ status = 400 /\ im007 /\ missingModule # NoText
                /\ missingVersion # NoNumber /\ missingVersion > 1
                /\ attempt < maxAttempts /\ hasFlow
                /\ fallbackKey \notin triedVersionFallbacks
                /\ UpdatedCount(FlowOf(parsedTree).v, missingModule) > 0
        THEN "version_decrement"
        ELSE IF /\ status = 400 /\ attempt < maxAttempts /\ hasFlow
                /\ ~strippedVersionsForRetry
                /\ im007
                /\ StrippedCount(FlowOf(parsedTree).v) > 0
        THEN "strip_versions"
        ELSE "throw"

\* axios.post rejected with error: one pass through the catch of the retry loop
PostFailsWith(error, repair) ==
    LET missingModule == extractIm007ModuleId(error)
        flow == FlowOf(parsedTree).v
    IN  /\ lastFailure' = [attempt |-> attempt, error |-> error, repair |-> repair]
        /\ parsedTree' =
              CASE repair = "verified_version" ->
                      Put(parsedTree, "flow",
                          Arr(setModuleVersionInFlow(flow, missingModule,
                                                     VERIFIED_MODULE_VERSIONS[missingModule])))
                [] repair = "remap" ->
                      Put(parsedTree, "flow",
                          Arr(replaceModuleIdsInFlow(flow,
                                  missingModule :> resolveClosestLiveModule(missingModule, liveIds.ids))))
                [] repair = "version_decrement" ->
                      Put(parsedTree, "flow",
                          Arr(setModuleVersionInFlow(flow, missingModule,
                                                     extractIm007Version(error) - 1)))
                [] repair = "strip_versions" ->
                      Put(parsedTree, "flow", Arr(stripModuleVersionsInFlow(flow)))
                [] OTHER -> parsedTree
        /\ triedVersionFallbacks' =
              CASE repair = "verified_version" ->
                      triedVersionFallbacks \cup {VerifiedKey(missingModule)}
                [] repair = "version_decrement" ->
                      triedVersionFallbacks \cup {FallbackKey(missingModule, extractIm007Version(error) - 1)}
                [] OTHER -> triedVersionFallbacks
        /\ strippedVersionsForRetry' = (strippedVersionsForRetry \/ repair = "strip_versions")
        /\ remappedModules' =
              IF repair = "remap"
              THEN Append(remappedModules,
                          [from |-> missingModule,
                           to |-> resolveClosestLiveModule(missingModule, liveIds.ids)])
              ELSE remappedModules
        /\ failedModulesOuter' =
              IF repair = "abort_problematic"
              THEN Append(failedModulesOuter,
                          [module |-> missingModule,
                           alternative |-> getProblematicModuleInfo(missingModule)])
              ELSE failedModulesOuter
        /\ IF repair \in {"abort_problematic", "throw"}
           THEN /\ result' = CatchResult(error, failedModulesOuter')
                /\ pc' = "done"
                /\ UNCHANGED <<attempt, submissions>>
           ELSE LoopHead

PostFails ==
    /\ tool = "create"
    /\ pc = "posting"
    /\ \E error \in ErrorResponses :
          \E repair \in {SelectRepair(error)} : PostFailsWith(error, repair)
    /\ UNCHANGED <<auxVars, resolverVars, cacheVars, permuteVars, compatVars, tool, blueprint, apiKeyValid, liveIds, validateVars, healVars, teamIdGiven,
                   schedulingConfig>>

NextCreate == CreateScenarioBegin \/ LiveFetched \/ PostSucceeds \/ PostFails
SpecCreate == InitCreate /\ [][NextCreate]_vars
\* a call that has not returned can take a step: ENABLED <<NextCreate>>_vars
Running == tool = "create" /\ pc # "done"
\* every await of the handler settles (axios applies a timeout to each request) and the
\* synchronous code in between runs on: weak fairness of NextCreate, WF_vars(NextCreate),
\* written out with Running as the enabling condition
SpecCreateFair == SpecCreate /\ ([]<>(~Running) \/ []<><<NextCreate>>_vars)

-----------------------------------------------------------------------------
(* Properties of the deployment retry loop *)

Created == tool = "create" /\ pc = "done"
\* the Problematic-Step denylist: an exact entry, or a step of the openai namespaces
DenylistedStep(id) ==
    \/ id \in DOMAIN PROBLEMATIC_MODULES
    \/ AppPrefix(id) = <<"o","p","e","n","a","i">>
    \/ AppPrefix(id) = <<"o","p","e","n","a","i","-","g","p","t","-","3">>
\* the latest rejection was HTTP 400 with code IM007 naming a denylisted step
DenylistedRejection ==
    /\ lastFailure.attempt > 0
    /\ lastFailure.error.status = 400
    /\ lastFailure.error.code = "IM007"
    /\ lastFailure.error.module # NoText
    /\ DenylistedStep(lastFailure.error.module)

\* C1: whatever the remote responses, create_scenario makes at most 5 submissions
\* and then ends in a terminal outcome, created or failed; it never loops on.
C1_BoundedRetries ==
    /\ [](submissions <= 5)
    /\ <>(Created /\ result.kind \in {"ok", "failed"})
\* five submissions were made and the call ended
C1_Witness == Created /\ submissions = 5 /\ lastFailure.attempt = 4

\* C2: a submission rejected with HTTP 400 / IM007 naming a denylisted step ends the
\* call as failed on that attempt: it is the last submission, so one submission is
\* made when the first rejection is such.
C2_DenylistedAbortsAtOnce ==
    DenylistedRejection =>
        /\ Created
        /\ result.kind = "failed"
        /\ submissions = lastFailure.attempt
\* the first rejection names a step denylisted by its namespace only
C2_Witness ==
    /\ DenylistedRejection
    /\ lastFailure.error.module = "openai:ActionEditImage"
    /\ lastFailure.attempt = 1
    /\ submissions = 1
    /\ Created

-----------------------------------------------------------------------------
(* resolveClosestLiveModule on its own: a step id against a live id set *)

MaxLive == 3

\* the step ids resolved
ResolveStepIds ==
    {"slack:ActionPostMessage", "slack:Action-PostMessage", "slack:PostMessage",
     "slack:SendMessageNow", "slak:ActoinPostMessage"}
\* the ids a live catalog is made of
LivePool ==
    {"slack:ActionPostMessage", "slack:actionpostmessage", "slack:CreatePostMessage",
     "slack:SendSend", "http:ActionSendData"}
IsInjective(s) == \A i, j \in 1..Len(s) : s[i] = s[j] => i = j
Range(s) == {s[i] : i \in 1..Len(s)}
\* a Set<string> in insertion order, of 1 to MaxLive ids
LiveOrders ==
    {s \in UNION {[1..n -> LivePool] : n \in 1..MaxLive} : IsInjective(s)}
\* the same ids inserted in another order
Reorderings(s) == {t \in [1..Len(s) -> Range(s)] : IsInjective(t)}

InitResolve ==
    /\ tool = "resolve"
    /\ pc = "start"
    /\ stepId \in ResolveStepIds
    /\ liveIds \in {Live(s) : s \in LiveOrders}
    /\ permutedIds \in Reorderings(liveIds.ids)
    /\ suggestion = NoSuggestion
    /\ suggestionPermuted = NoSuggestion
    /\ blueprint = Null
    /\ apiKeyValid = TRUE
    /\ report = NoReport
    /\ healed = NoHeal
    /\ healedTwice = NoHeal
    /\ reconciled = <<>>
    /\ CreateIdle
    /\ CacheIdle /\ PermuteIdle /\ CompatIdle /\ AuxIdle

\* resolveClosestLiveModule(stepId, liveIds)
Resolve ==
    /\ tool = "resolve"
    /\ pc = "start"
    /\ suggestion' = resolveClosestLiveModule(stepId, liveIds.ids)
    /\ pc' = "resolved"
    /\ UNCHANGED <<auxVars, tool, blueprint, apiKeyValid, liveIds, validateVars, healVars, createVars,
                   stepId, permutedIds, suggestionPermuted, cacheVars, permuteVars, compatVars>>

\* resolveClosestLiveModule(stepId, the same ids in the other insertion order)
ResolvePermuted ==
    /\ tool = "resolve"
    /\ pc = "resolved"
    /\ suggestionPermuted' = resolveClosestLiveModule(stepId, permutedIds)
    /\ pc' = "done"
    /\ UNCHANGED <<auxVars, tool, blueprint, apiKeyValid, liveIds, validateVars, healVars, createVars,
                   stepId, permutedIds, suggestion, cacheVars, permuteVars, compatVars>>

NextResolve == Resolve \/ ResolvePermuted
SpecResolve == InitResolve /\ [][NextResolve]_vars

(* properties of the resolver *)
Resolved == tool = "resolve" /\ pc # "start"
\* the live ids that normalise to the same string as the step id
NormalizedTwins ==
    {id \in Range(liveIds.ids) :
        normalizeModuleId(Chars[id]) = normalizeModuleId(Chars[stepId])}
Verbatim == stepId \in Range(liveIds.ids)

\* C11: when the step id is not a live id verbatim and two or more live ids normalise
\* to the same string as it, no suggestion is returned; when exactly one does, that
\* id is returned.
C11_CollisionIsUnresolved ==
    (Resolved /\ ~Verbatim) =>
        /\ Cardinality(NormalizedTwins) >= 2 => suggestion = NoSuggestion
        /\ Cardinality(NormalizedTwins) = 1 => suggestion \in NormalizedTwins

\* the token-overlap stage is reached
TokenStage == ~Verbatim /\ Cardinality(NormalizedTwins) # 1
TokenSet(id) == Range(tokenizeModulePart(SecondPart(Chars[id])))
SameNamespace == {id \in Range(liveIds.ids) : AppPrefix(id) = AppPrefix(stepId)}
\* |targetTokens \cap candidateTokens|, over token sets
Shared(id) == Cardinality(TokenSet(stepId) \cap TokenSet(id))
BestShared == CHOOSE n \in {Shared(id) : id \in SameNamespace} :
                 \A id \in SameNamespace : Shared(id) <= n

\* C12: in the token-overlap stage only live ids of the step id's namespace are
\* candidates, the score of a candidate is the share of the target tokens it has,
\* and the best candidate is returned exactly when its score is at least 0.5.
C12_BestScoreAtLeastHalf ==
    (Resolved /\ TokenStage) =>
        IF SameNamespace = {} \/ 2 * BestShared < Cardinality(TokenSet(stepId))
        THEN suggestion = NoSuggestion
        ELSE suggestion \in SameNamespace /\ Shared(suggestion) = BestShared

\* C13: the suggestion depends on the step id and the set of live ids only, not on
\* the order in which the ids were inserted.
C13_OrderIndependent ==
    (tool = "resolve" /\ pc = "done") => suggestion = suggestionPermuted

-----------------------------------------------------------------------------
(* Properties of create_scenario: failure results, credentials, versions *)

\* a repair was applied during the call: an id substitution, a forced registry or
\* decremented version, or the stripping of all versions
VersionRepairApplied == triedVersionFallbacks # {} \/ strippedVersionsForRetry
RepairApplied == remappedModules # <<>> \/ VersionRepairApplied
\* the deployment ended in a failure, no scenario having been created
DeploymentFailed ==
    /\ Created
    /\ result.kind = "failed"
    /\ result.message # "Scenario was created but is invalid"

\* C14: a failure result returned after one or more repairs names every repair that
\* was applied: each id substitution, and the version repairs.
C14_FailureListsRepairs ==
    (DeploymentFailed /\ RepairApplied) =>
        /\ \A i \in 1..Len(remappedModules) :
              \E j \in 1..Len(result.remappedModules) :
                  result.remappedModules[j] = remappedModules[i]
        /\ VersionRepairApplied => "repairs" \in DOMAIN result


(* properties of the credential checks *)
CredentialsMissing == ~apiKeyValid \/ ~teamIdGiven
CredentialMessage ==
    IF ~apiKeyValid THEN "MAKE_API_KEY not configured" ELSE "Team ID required"

\* C19: without a valid API key or without a team id create_scenario never fetches the
\* live catalog, never submits, never parses or heals the blueprint, and ends with
\* the error of the missing credential, whatever the blueprint is.
C19_CredentialsFirst ==
    (tool = "create" /\ CredentialsMissing) =>
        /\ pc \in {"start", "done"}
        /\ submissions = 0
        /\ parsedTree = Null
        /\ pc = "done" => (result.kind = "failed" /\ result.message = CredentialMessage)
C19_Witness ==
    /\ tool = "create" /\ pc = "done"
    /\ apiKeyValid /\ ~teamIdGiven
    /\ blueprint.k = "invalid"
    /\ result.kind = "failed" /\ result.message = "Team ID required"
-----------------------------------------------------------------------------
(* fetchLiveModuleIds and liveModuleCatalogCache, for one base URL *)

MaxMinutes == 7
MaxCalls == 3

Minute == 60 * 1000
\* MAKE_MODULE_CACHE_TTL_MS is not set
MODULE_CACHE_TTL_MS == 5 * 60 * 1000

Entry(fetchedAt, ids) == [present |-> TRUE, fetchedAt |-> fetchedAt, ids |-> ids]

\* axios.get rejected, or resolved with response.data = data
Rejected == [threw |-> TRUE]
Fulfilled(data) == [threw |-> FALSE, data |-> data]
\* what the modules endpoint answers
ModulesResponses ==
    {Rejected,
     Fulfilled(Null),
     Fulfilled(Obj([modules |-> Arr(<<>>)])),
     Fulfilled(Arr(<<Str("nocolon"), Null, Num(1), Obj([id |-> Str("nocolon")])>>)),
     Fulfilled(Obj([modules |-> Arr(<<Str("slack:ActionPostMessage"),
                                     Obj([id |-> Str("http:ActionSendData")])>>)])),
     Fulfilled(Arr(<<Obj([module |-> Str("gateway:CustomWebHook"),
                         key |-> Str("slack:ActionPostMessage"), id |-> Num(7)]),
                    Str("slack:ActionPostMessage")>>))}

\* response.data?.modules when an array, else response.data when an array, else []
RawModules(data) ==
    IF IsArray(OptGet(data, "modules")) THEN Get(data, "modules").v
    ELSE IF IsArray(data) THEN data.v
    ELSE <<>>
\* typeof candidate === 'string' && candidate.includes(':')
IsIdText(candidate) == IsString(candidate) /\ Includes(Chars[candidate.v], <<":">>)
IdOf(candidate) == IF IsIdText(candidate) THEN <<candidate.v>> ELSE <<>>
\* the id field of an item only
IdFieldOnly(item) == IF IsString(item) THEN IdOf(item) ELSE IdOf(Get(item, "id"))
\* the ids one item of rawModules adds, in the order they are added
ItemIds(item) ==
    IF IsString(item) THEN IdOf(item)
    ELSE IF ~Truthy(item) \/ ~IsObjectLike(item) THEN <<>>
    ELSE IdOf(Get(item, "id")) \o IdOf(Get(item, "module")) \o IdOf(Get(item, "key"))
\* the Set ids after the loop over rawModules, in insertion order
ParsedIds(rawModules) ==
    LET Added[i \in 0..Len(rawModules)] ==
            IF i = 0 THEN <<>> ELSE Added[i - 1] \o ItemIds(rawModules[i])
    IN  DistinctInOrder(Added[Len(rawModules)])

InitFetch ==
    /\ tool = "fetch"
    /\ pc = "idle"
    /\ cache = NoEntry
    /\ now = 0
    /\ calls = 0
    /\ requests = 0
    /\ fetched = NoLive
    /\ blueprint = Null
    /\ apiKeyValid = TRUE
    /\ liveIds = NoLive
    /\ report = NoReport
    /\ healed = NoHeal
    /\ healedTwice = NoHeal
    /\ reconciled = <<>>
    /\ CreateIdle
    /\ ResolverIdle /\ PermuteIdle /\ CompatIdle /\ AuxIdle

\* time passes
Tick ==
    /\ tool = "fetch"
    /\ now < MaxMinutes * Minute
    /\ now' = now + Minute
    /\ UNCHANGED <<auxVars, tool, pc, blueprint, apiKeyValid, liveIds, validateVars, healVars,
                   createVars, resolverVars, cache, calls, requests, fetched,
                   permuteVars, compatVars>>

\* fetchLiveModuleIds is called: the cached ids are returned, or axios.get is awaited
FetchBegin ==
    /\ tool = "fetch"
    /\ pc = "idle"
    /\ calls < MaxCalls
    /\ calls' = calls + 1
    /\ IF cache.present /\ now - cache.fetchedAt < MODULE_CACHE_TTL_MS
       THEN /\ fetched' = Live(cache.ids)
            /\ UNCHANGED <<pc, requests>>
       ELSE /\ requests' = requests + 1
            /\ pc' = "awaiting"
            /\ UNCHANGED fetched
    /\ UNCHANGED <<auxVars, tool, blueprint, apiKeyValid, liveIds, validateVars, healVars, createVars,
                   resolverVars, cache, now, permuteVars, compatVars>>

\* axios.get settles with response: the rest of fetchLiveModuleIds
FetchSettles(response) ==
    /\ tool = "fetch"
    /\ pc = "awaiting"
    /\ pc' = "idle"
    /\ \E ids \in {IF response.threw THEN <<>> ELSE ParsedIds(RawModules(response.data))} :
          IF response.threw \/ Len(ids) = 0
          THEN /\ fetched' = NoLive
               /\ UNCHANGED cache
          ELSE /\ cache' = Entry(now, ids)
               /\ fetched' = Live(ids)
    /\ UNCHANGED <<auxVars, tool, blueprint, apiKeyValid, liveIds, validateVars, healVars, createVars,
                   resolverVars, now, calls, requests, permuteVars, compatVars>>
FetchEnd == \E response \in ModulesResponses : FetchSettles(response)

NextFetch == Tick \/ FetchBegin \/ FetchEnd
SpecFetch == InitFetch /\ [][NextFetch]_vars

(* properties of the live-catalog cache *)
\* C15: a call finding a snapshot whose age is at most the TTL returns it and makes
\* no request; one finding an older snapshot makes a request; a successful refetch
\* replaces the cache entry with the new id set and the fetch time.
C15_ServedUpToTtl ==
    [][/\ (calls' = calls + 1 /\ cache.present) =>
             IF now - cache.fetchedAt <= MODULE_CACHE_TTL_MS
             THEN requests' = requests /\ fetched' = Live(cache.ids) /\ cache' = cache
             ELSE requests' = requests + 1
       /\ (pc = "awaiting" /\ pc' = "idle" /\ fetched'.ok) =>
             cache' = Entry(now, fetched'.ids)]_vars

-----------------------------------------------------------------------------
(* check_account_compatibility *)

Rejection(message) == [isError |-> TRUE, message |-> message]
\* a three-valued JSON field: true, false or null
Tri(known, value) == IF ~known THEN "null" ELSE IF value THEN "true" ELSE "false"

\* requested: moduleIds, then the step ids extracted from the blueprint's flow
RequestedOf(moduleIds, parsed) ==
    DistinctInOrder(moduleIds \o
        (IF IsArray(Get(parsed, "flow")) THEN ModulesOf(parsed) ELSE <<>>))

IsVerifiedModule(moduleId) == moduleId \in DOMAIN VERIFIED_MODULE_VERSIONS
IsProblematic(moduleId) == getProblematicModuleInfo(moduleId) # NoInfo
\* problemInfo?.alternative ?? suggestedReplacement ?? null
AlternativeOf(moduleId, info, liveChecked, live) ==
    IF info # NoInfo THEN info
    ELSE IF liveChecked /\ ~LiveHas(live, moduleId)
         THEN resolveClosestLiveModule(moduleId, live.ids)
         ELSE NoSuggestion
\* one entry of results
CompatModule(moduleId, liveChecked, live) ==
    [moduleId |-> moduleId,
     liveAvailable |-> Tri(liveChecked, liveChecked /\ LiveHas(live, moduleId)),
     verified |-> IsVerifiedModule(moduleId),
     recommendedVersion |-> IF IsVerifiedModule(moduleId)
                            THEN VERIFIED_MODULE_VERSIONS[moduleId] ELSE NoNumber,
     problematic |-> IsProblematic(moduleId),
     alternative |-> AlternativeOf(moduleId, getProblematicModuleInfo(moduleId),
                                   liveChecked, live)]
CompatModules(requested, liveChecked, live) ==
    [i \in 1..Len(requested) |-> CompatModule(requested[i], liveChecked, live)]
AnyProblematic(requested) == \E i \in 1..Len(requested) : IsProblematic(requested[i])
AnyUnverified(requested) ==
    \E i \in 1..Len(requested) :
        ~IsVerifiedModule(requested[i]) /\ ~IsProblematic(requested[i])
\* liveIds !== null, and false in the branch without an API key
LiveCatalogAssumed(keyValid, live) == keyValid
LiveCatalogChecked(keyValid, live) == keyValid /\ live.ok
\* the ok(...) of either branch; without an API key the live catalog is not fetched,
\* and compatible is never true
CompatReport(requested, keyValid, live) ==
    [isError |-> FALSE,
     liveCatalogChecked |-> LiveCatalogChecked(keyValid, live),
     verifiedRegistryChecked |-> TRUE,
     compatible |-> IF AnyProblematic(requested) THEN "false"
                    ELSE IF keyValid /\ ~AnyUnverified(requested) THEN "true"
                    ELSE "null",
     modules |-> CompatModules(requested, keyValid /\ live.ok, live)]
CompatFor(requested, keyValid, live) ==
    IF Len(requested) = 0
    THEN Rejection("Provide at least one module ID")
    ELSE CompatReport(requested, keyValid, live)
\* check_account_compatibility({moduleIds, blueprint}): parsed is Undefined when no
\* blueprint is given; JSON 'null' makes parsed.flow throw into the catch block
check_account_compatibility(moduleIds, parsed, keyValid, live) ==
    IF parsed.k = "invalid" THEN Rejection("Invalid blueprint JSON")
    ELSE IF parsed = Null THEN Rejection("Compatibility check failed")
    ELSE CompatFor(RequestedOf(moduleIds, parsed), keyValid, live)

(* inputs of check_account_compatibility *)
CompatModuleIds ==
    {<<>>,
     <<"slack:ActionPostMessage">>,
     <<"gateway:CustomWebHook", "http:ActionSendData">>,
     <<"slack:PostMessage", "gateway:CustomWebHook", "slack:PostMessage">>,
     <<"openai:ActionCreateCompletion">>,
     <<"other:Unknown">>}
CompatBlueprints ==
    {Undefined, InvalidJson, Null, EmptyObj, Num(5),
     Obj([flow |-> Arr(<<WebHookOk, Router(<<Route(<<SlackRenamed>>), Null>>)>>)]),
     Obj([flow |-> Arr(<<>>)])}

InitCompat ==
    /\ tool = "compat"
    /\ pc = "start"
    /\ requestedIds \in CompatModuleIds
    /\ blueprint \in CompatBlueprints
    /\ apiKeyValid \in BOOLEAN
    /\ liveIds \in IF apiKeyValid THEN CreateLive ELSE {NoLive}
    /\ compatibility = NoReport
    /\ report = NoReport
    /\ healed = NoHeal
    /\ healedTwice = NoHeal
    /\ reconciled = <<>>
    /\ CreateIdle
    /\ ResolverIdle /\ CacheIdle /\ PermuteIdle /\ AuxIdle

CheckAccountCompatibility ==
    /\ tool = "compat"
    /\ pc = "start"
    /\ compatibility' = check_account_compatibility(requestedIds, blueprint, apiKeyValid, liveIds)
    /\ pc' = "done"
    /\ UNCHANGED <<auxVars, tool, blueprint, apiKeyValid, liveIds, validateVars, healVars, createVars,
                   resolverVars, cacheVars, permuteVars, requestedIds>>

NextCompat == CheckAccountCompatibility

\* the three tools that consult the live catalog, each called once
InitLiveCheck ==
    \/ InitValidate
    \/ InitCompat
    \/ InitCreate
NextLiveCheck == NextValidate \/ NextCompat \/ NextCreate
SpecLiveCheck == InitLiveCheck /\ [][NextLiveCheck]_vars

(* properties of the degraded live check *)
\* no valid API key, or fetchLiveModuleIds resolved to null
Unknown == ~apiKeyValid \/ ~liveIds.ok
Finished(name) == tool = name /\ pc = "done"
\* the live check gave validate_scenario nothing: not checked, no availability error
ValidateDegrades ==
    (Finished("validate") /\ ~report.isError) =>
        /\ report.liveCatalogChecked = FALSE
        /\ ~\E i \in 1..Len(report.errors) : report.errors[i].kind = "not_available"
\* check_account_compatibility rejects only what it rejects with a live catalog too, and
\* otherwise reports every requested id with liveAvailable null
CompatDegrades ==
    Finished("compat") =>
        /\ compatibility.isError =
              check_account_compatibility(requestedIds, blueprint, TRUE,
                                          Live(<<"gateway:CustomWebHook">>)).isError
        /\ ~compatibility.isError =>
              /\ compatibility.liveCatalogChecked = FALSE
              /\ \A i \in 1..Len(compatibility.modules) :
                    compatibility.modules[i].liveAvailable = "null"
\* the blueprint and team id are such that create_scenario reaches its live check
\* when the API key is valid
Deployable == teamIdGiven /\ blueprint.k # "invalid" /\ ~Heal(blueprint).threw
\* the first submission was made with the healed blueprint, nothing remapped
Proceeded ==
    /\ submissions >= 1
    /\ remappedModules = <<>>
    /\ result.kind = "failed" => result.message # "Cannot deploy: modules not available"

\* C16 as stated: whenever the API key is missing or the fetch gives nothing, validate
\* reports unchecked with no availability error, check_account_compatibility returns
\* a report, and create_scenario goes on to submit the blueprint.
C16_UnknownNeverAnError ==
    Unknown =>
        /\ ValidateDegrades
        /\ CompatDegrades
        /\ (tool = "create" /\ pc \notin {"start", "fetching"} /\ Deployable) => Proceeded

\* C16 amended: the same, except that create_scenario goes on to submit the blueprint
\* only when the fetch gives nothing under a valid API key; without a valid key it
\* returns the credential error and submits nothing.
C16_UnknownDegrades ==
    Unknown =>
        /\ ValidateDegrades
        /\ CompatDegrades
        /\ (tool = "create" /\ pc \notin {"start", "fetching"} /\ Deployable) =>
              IF apiKeyValid THEN Proceeded
              ELSE submissions = 0 /\ result.kind = "failed"
C16_Witness ==
    /\ Finished("create") /\ apiKeyValid /\ ~liveIds.ok /\ Deployable
    /\ submissions >= 1
    /\ \E n \in NodesOf(blueprint) : n.node = SlackRenamed

-----------------------------------------------------------------------------
(* validate_scenario on a blueprint and on the same blueprint with sibling routes
   re-ordered *)

MaxRoutes == 2

\* the re-orderings of a list, equal items included
IndexOrders(n) == {p \in [1..n -> 1..n] : IsInjective(p)}
Permuted(s) == {[i \in 1..Len(s) |-> s[p[i]]] : p \in IndexOrders(Len(s))}

RECURSIVE PermutedFlows(_)
\* a route with the routers under it re-ordered
PermutedRoute(route) ==
    IF IsArray(OptGet(route, "flow"))
    THEN {Put(route, "flow", Arr(f)) : f \in PermutedFlows(Get(route, "flow").v)}
    ELSE {route}
PermutedRouteLists(routes) ==
    UNION {Permuted(rs) : rs \in {l \in [1..Len(routes) -> UNION {PermutedRoute(routes[i]) : i \in 1..Len(routes)}] :
                                     \A i \in 1..Len(routes) : l[i] \in PermutedRoute(routes[i])}}
\* a node with its routes, and the routes of the routers under it, re-ordered
PermutedNode(node) ==
    IF IsArray(OptGet(node, "routes"))
    THEN {Put(node, "routes", Arr(rs)) : rs \in PermutedRouteLists(Get(node, "routes").v)}
    ELSE {node}
PermutedFlows(flow) ==
    {f \in [1..Len(flow) -> UNION {PermutedNode(flow[i]) : i \in 1..Len(flow)}] :
        \A i \in 1..Len(flow) : f[i] \in PermutedNode(flow[i])}
\* the blueprints that differ from parsed in the order of sibling routes only
RoutePermutations(parsed) ==
    IF IsArray(Get(parsed, "flow"))
    THEN {Put(parsed, "flow", Arr(f)) : f \in PermutedFlows(Get(parsed, "flow").v)}
    ELSE {parsed}

(* inputs: one router, alone or after a trigger *)
SlackBare == Node("slack:ActionPostMessage", [id |-> Num(3)])
PermuteRoutes ==
    {Route(<<UnknownStep>>), Route(<<WebHookBare, SlackBare>>), RouteWithFilter(<<WebHookOk>>),
     Null,
     Route(<<Router(<<Route(<<WebHookBare>>), Route(<<UnknownStep>>)>>)>>)}
PermuteRouters == {Router(routes) : routes \in SeqsUpTo(PermuteRoutes, MaxRoutes)}
PermuteBlueprints ==
    BlueprintsOver({<<r>> : r \in PermuteRouters} \cup {<<WebHookOk, r>> : r \in PermuteRouters})

\* outcomes of fetchLiveModuleIds
PermuteLive == {NoLive, Live(<<"builtin:BasicRouter", "slack:ActionPostMessage">>)}

InitPermute ==
    /\ tool = "validate"
    /\ pc = "start"
    /\ blueprint \in PermuteBlueprints
    /\ apiKeyValid \in BOOLEAN
    /\ liveIds \in IF apiKeyValid THEN PermuteLive ELSE {NoLive}
    /\ report = NoReport
    /\ healed = NoHeal
    /\ healedTwice = NoHeal
    /\ reconciled = <<>>
    /\ CreateIdle
    /\ ResolverIdle /\ CacheIdle /\ PermuteIdle /\ CompatIdle /\ AuxIdle

\* validate_scenario is called again, with sibling routes in another order
ValidatePermuted ==
    /\ tool = "validate"
    /\ pc = "done"
    /\ \E permuted \in RoutePermutations(blueprint) :
          /\ permutedBlueprint' = permuted
          /\ permutedReport' = validate_scenario(permuted, apiKeyValid, liveIds)
    /\ pc' = "permuted"
    /\ UNCHANGED <<auxVars, tool, blueprint, apiKeyValid, liveIds, validateVars, healVars, createVars,
                   resolverVars, cacheVars, compatVars>>

NextPermute == ValidateScenario \/ ValidatePermuted
SpecPermute == InitPermute /\ [][NextPermute]_vars

(* properties of validation under re-ordered routes *)
BothValidated == tool = "validate" /\ pc = "permuted"
\* an error without its path prefix: what is wrong, with which step and parameter, at
\* which index of its own flow and how deep
Unplaced(e) ==
    [kind |-> e.kind, module |-> e.module, param |-> e.param,
     index |-> IF Len(e.pos) = 0 THEN -1 ELSE e.pos[Len(e.pos)], depth |-> Len(e.pos)]
Times(errors, u) == Cardinality({i \in 1..Len(errors) : Unplaced(errors[i]) = u})
SameErrorContent(a, b) ==
    /\ Len(a) = Len(b)
    /\ \A i \in 1..Len(a) : Times(a, Unplaced(a[i])) = Times(b, Unplaced(a[i]))

\* C17: validating a blueprint and the same blueprint with sibling routes re-ordered
\* fails alike, and otherwise reports the same errors up to their path labels, as many
\* of each, and the same valid.
C17_RouteOrderOnlyRelabels ==
    BothValidated =>
        /\ permutedReport.isError = report.isError
        /\ ~report.isError =>
              /\ SameErrorContent(report.errors, permutedReport.errors)
              /\ permutedReport.valid = report.valid
C17_Witness ==
    /\ BothValidated
    /\ ~report.isError
    /\ Len(report.errors) > 1
    /\ permutedReport.errors # report.errors
    /\ \E i \in 1..Len(report.errors) : Len(report.errors[i].pos) > 2

-----------------------------------------------------------------------------
(* logger, setLogLevel *)

MaxLogCalls == 3

LogLevels == {"debug", "info", "warn", "error", "silent"}
LEVEL_ORDER == "debug" :> 0 @@ "info" :> 1 @@ "warn" :> 2 @@ "error" :> 3 @@ "silent" :> 4
\* a threshold that a message has to exceed
shouldLogAbove(level, current) == LEVEL_ORDER[level] > LEVEL_ORDER[current]
\* shouldLog(level) when currentLevel = current
shouldLog(level, current) == LEVEL_ORDER[level] >= LEVEL_ORDER[current]
\* formatMessage(level, message, data) + '\n': the timestamp is not modelled
formatMessage(level, message) == [level |-> level, message |-> message]
LogMessages == {"create_scenario", "validate_scenario failed"}

\* LOG_LEVEL names a level, or is unset and the level is info
InitLogger ==
    /\ tool = "logger"
    /\ pc = "running"
    /\ currentLevel \in LogLevels
    /\ stderr = <<>>
    /\ stdout = <<>>
    /\ logCalls = <<>>
    /\ blueprint = Null
    /\ apiKeyValid = TRUE
    /\ liveIds = NoLive
    /\ report = NoReport
    /\ healed = NoHeal
    /\ healedTwice = NoHeal
    /\ reconciled = <<>>
    /\ CreateIdle
    /\ ResolverIdle /\ CacheIdle /\ PermuteIdle /\ CompatIdle
    /\ DbIdle /\ readers = <<>>

SetLogLevel ==
    /\ tool = "logger"
    /\ \E level \in LogLevels : currentLevel' = level
    /\ UNCHANGED <<tool, pc, blueprint, apiKeyValid, liveIds, validateVars, healVars, createVars,
                   resolverVars, cacheVars, permuteVars, compatVars, stderr, stdout, logCalls,
                   dbVars, readers>>

\* logger.debug / info / warn / error (message)
LoggerCall(level, message) ==
    /\ tool = "logger"
    /\ Len(logCalls) < MaxLogCalls
    /\ logCalls' = Append(logCalls, level)
    /\ stderr' = IF shouldLog(level, currentLevel)
                 THEN Append(stderr, formatMessage(level, message))
                 ELSE stderr
    /\ UNCHANGED <<tool, pc, blueprint, apiKeyValid, liveIds, validateVars, healVars, createVars,
                   resolverVars, cacheVars, permuteVars, compatVars, currentLevel, stdout,
                   dbVars, readers>>
LoggerDebug == \E message \in LogMessages : LoggerCall("debug", message)
LoggerInfo == \E message \in LogMessages : LoggerCall("info", message)
LoggerWarn == \E message \in LogMessages : LoggerCall("warn", message)
LoggerError == \E message \in LogMessages : LoggerCall("error", message)

NextLogger == SetLogLevel \/ LoggerDebug \/ LoggerInfo \/ LoggerWarn \/ LoggerError
SpecLogger == InitLogger /\ [][NextLogger]_vars

(* properties of the logger *)
Rank(level) == CHOOSE n \in 0..4 : <<"debug", "info", "warn", "error", "silent">>[n + 1] = level
Called == logCalls' # logCalls
CalledLevel == logCalls'[Len(logCalls')]

\* C21: a logger call at level L appends one line to stderr when rank(L) >= rank of
\* the level last set, and none otherwise, so none at silent; stdout is never written.
C21_StderrIffAtLeastLevel ==
    [][/\ Called =>
             IF Rank(CalledLevel) >= Rank(currentLevel)
             THEN /\ Len(stderr') = Len(stderr) + 1
                  /\ stderr'[Len(stderr')].level = CalledLevel
                  /\ currentLevel # "silent"
             ELSE stderr' = stderr
       /\ ~Called => stderr' = stderr
       /\ stdout' = <<>>]_vars
\* calls were written and calls were suppressed, and the level is now silent
C21_Witness ==
    /\ tool = "logger"
    /\ currentLevel = "silent"
    /\ Len(stderr) > 0
    /\ Len(logCalls) > Len(stderr) + 1
    /\ logCalls[Len(logCalls)] = "error"

-----------------------------------------------------------------------------
(* MakeDatabase: insertModule, getModule *)

MaxInserts == 3

\* JSON.stringify(value), kept apart from the value it serialises
Stringify(value) == [json |-> value]
\* the row that insertModule binds for module
RowOf(module) ==
    [id |-> module.id, name |-> module.name, app |-> module.app, type |-> module.type,
     description |-> module.description,
     parameters |-> Stringify(module.parameters),
     examples |-> Stringify(IF "examples" \in DOMAIN module THEN module.examples ELSE <<>>),
     documentation |-> IF "documentation" \in DOMAIN module THEN module.documentation ELSE ""]
FtsRowOf(module) ==
    [module_id |-> module.id, name |-> module.name, app |-> module.app,
     description |-> module.description]
WithoutId(rows, id) == SelectSeq(rows, LAMBDA row : row.id # id)
WithoutModuleId(rows, id) == SelectSeq(rows, LAMBDA row : row.module_id # id)
\* INSERT INTO modules without the conflict clause on a table without the key
InsertRow(rows, row) == Append(rows, row)
\* INSERT OR REPLACE INTO modules: id is the primary key, the row in conflict is deleted
InsertOrReplace(rows, row) == Append(WithoutId(rows, row.id), row)
\* SELECT * FROM modules WHERE id = ? .get(moduleId): the first row, or undefined
getModule(rows, moduleId) ==
    IF \E i \in 1..Len(rows) : rows[i].id = moduleId
    THEN rows[CHOOSE i \in 1..Len(rows) :
                 rows[i].id = moduleId /\ \A j \in 1..(i - 1) : rows[j].id # moduleId]
    ELSE Undefined

(* inputs *)
DbModules ==
    {[id |-> "test:Action1", name |-> "Test Action 1", app |-> "Test App", type |-> "action",
      description |-> "A test action module",
      parameters |-> <<[name |-> "input", required |-> TRUE]>>],
     [id |-> "test:Action1", name |-> "Test Action 1 Updated", app |-> "Test App",
      type |-> "action", description |-> "Updated description", parameters |-> <<>>,
      documentation |-> "doc"],
     [id |-> "batch:Action1", name |-> "Batch 1", app |-> "Batch", type |-> "trigger",
      description |-> "First", parameters |-> <<>>, examples |-> <<"e">>]}
DbIds == {"test:Action1", "batch:Action1", "nonexistent:Module"}

InitDb ==
    /\ tool = "db"
    /\ pc = "open"
    /\ DbIdle
    /\ blueprint = Null
    /\ apiKeyValid = TRUE
    /\ liveIds = NoLive
    /\ report = NoReport
    /\ healed = NoHeal
    /\ healedTwice = NoHeal
    /\ reconciled = <<>>
    /\ CreateIdle
    /\ ResolverIdle /\ CacheIdle /\ PermuteIdle /\ CompatIdle
    /\ LoggerIdle /\ readers = <<>>

InsertModule ==
    /\ tool = "db"
    /\ Len(inserted) < MaxInserts
    /\ \E module \in DbModules :
          /\ modules' = InsertOrReplace(modules, RowOf(module))
          /\ modulesFts' = Append(WithoutModuleId(modulesFts, module.id), FtsRowOf(module))
          /\ inserted' = Append(inserted, module)
    /\ UNCHANGED <<tool, pc, blueprint, apiKeyValid, liveIds, validateVars, healVars, createVars,
                   resolverVars, cacheVars, permuteVars, compatVars, loggerVars, got, readers>>

GetModule ==
    /\ tool = "db"
    /\ \E moduleId \in DbIds : got' = [asked |-> moduleId, row |-> getModule(modules, moduleId)]
    /\ UNCHANGED <<tool, pc, blueprint, apiKeyValid, liveIds, validateVars, healVars, createVars,
                   resolverVars, cacheVars, permuteVars, compatVars, loggerVars, modules,
                   modulesFts, inserted, readers>>

NextDb == InsertModule \/ GetModule
SpecDb == InitDb /\ [][NextDb]_vars

(* properties of the module table *)
InsertedUnder(id) == SelectSeq(inserted, LAMBDA module : module.id = id)
LatestUnder(id) == InsertedUnder(id)[Len(InsertedUnder(id))]
RowsUnder(id) == SelectSeq(modules, LAMBDA row : row.id = id)

\* C22: getModule(id) returns the row of the module most recently inserted under id,
\* the table holds one row for an id however often it was inserted, and getModule
\* returns nothing for an id never inserted.
C22_LatestInsertWins ==
    tool = "db" =>
        \A id \in DbIds :
            IF InsertedUnder(id) = <<>>
            THEN getModule(modules, id) = Undefined /\ RowsUnder(id) = <<>>
            ELSE /\ getModule(modules, id) = RowOf(LatestUnder(id))
                 /\ Len(RowsUnder(id)) = 1
\* an id was inserted twice with different records and then read
C22_Witness ==
    /\ tool = "db"
    /\ Len(InsertedUnder("test:Action1")) > 1
    /\ InsertedUnder("test:Action1")[1] # LatestUnder("test:Action1")
    /\ got # Undefined
    /\ got.asked = "test:Action1"
    /\ got.row = RowOf(LatestUnder("test:Action1"))
    /\ got.row.name = "Test Action 1 Updated"

-----------------------------------------------------------------------------
(* properties of the repair loop of create_scenario *)

\* a submission was rejected on this step
Rejected400(error) == error.status = 400 /\ error.module # NoText
CanRetry == attempt < maxAttempts /\ IsArray(FlowOf(parsedTree))
InTree(id) == UpdatedCount(FlowOf(parsedTree).v, id) > 0
\* the conditions of the five repairs, for the failure error in the current state
RegistryApplicable(error) ==
    /\ Rejected400(error) /\ error.code = "IM007" /\ CanRetry
    /\ error.module \in DOMAIN VERIFIED_MODULE_VERSIONS
    /\ VerifiedKey(error.module) \notin triedVersionFallbacks
    /\ InTree(error.module)
DenylistApplicable(error) ==
    /\ Rejected400(error) /\ error.code = "IM007"
    /\ getProblematicModuleInfo(error.module) # NoInfo
SubstituteApplicable(error) ==
    /\ Rejected400(error) /\ CanRetry /\ liveIds.ok
    /\ resolveClosestLiveModule(error.module, liveIds.ids) \notin {NoSuggestion, error.module}
DecrementApplicable(error) ==
    /\ Rejected400(error) /\ error.code = "IM007" /\ CanRetry
    /\ extractIm007Version(error) # NoNumber /\ extractIm007Version(error) > 1
    /\ FallbackKey(error.module, extractIm007Version(error) - 1) \notin triedVersionFallbacks
    /\ InTree(error.module)
StripApplicable(error) ==
    /\ error.status = 400 /\ error.code = "IM007" /\ CanRetry
    /\ ~strippedVersionsForRetry
    /\ StrippedCount(FlowOf(parsedTree).v) > 0
\* the repairs in priority order, and how many of them rank above a repair
RepairOrder ==
    <<"verified_version", "abort_problematic", "remap", "version_decrement",
      "strip_versions", "throw">>
Priority(repair) == CHOOSE n \in 1..6 : RepairOrder[n] = repair
ApplicableAt(n, error) ==
    CASE n = 1 -> RegistryApplicable(error)
      [] n = 2 -> DenylistApplicable(error)
      [] n = 3 -> SubstituteApplicable(error)
      [] n = 4 -> DecrementApplicable(error)
      [] n = 5 -> StripApplicable(error)
      [] OTHER -> TRUE
\* this step is one pass through the catch of the retry loop
Failing == tool = "create" /\ pc = "posting" /\ lastFailure' # lastFailure

\* C23: a failed submission takes one transition: the repair applied is the first
\* applicable one in the order registry revision, denylist abort, substitute id,
\* revision - 1, strip pins, else failure; a retry follows exactly the four repairs
\* that retry, and the call ends on the abort and on the failure.
C23_FirstApplicableRepair ==
    [][Failing =>
          /\ ApplicableAt(Priority(lastFailure'.repair), lastFailure'.error)
          /\ \A n \in 1..5 : n < Priority(lastFailure'.repair) =>
                ~ApplicableAt(n, lastFailure'.error)
          /\ IF lastFailure'.repair \in {"abort_problematic", "throw"}
             THEN pc' = "done" /\ result'.kind = "failed" /\ submissions' = submissions
                  /\ parsedTree' = parsedTree
             ELSE pc' = "posting" /\ attempt' = attempt + 1 /\ submissions' = submissions + 1
          /\ lastFailure'.repair # "remap" => remappedModules' = remappedModules
          /\ lastFailure'.repair # "strip_versions" =>
                strippedVersionsForRetry' = strippedVersionsForRetry
          /\ lastFailure'.repair \notin {"verified_version", "version_decrement"} =>
                triedVersionFallbacks' = triedVersionFallbacks]_vars
\* a session that went through a forced registry revision, a substitution and the
\* stripping of pins, in that order of failures
C23_Witness ==
    /\ tool = "create"
    /\ lastFailure.attempt >= 3
    /\ lastFailure.repair = "strip_versions"
    /\ remappedModules # <<>>
    /\ \E key \in triedVersionFallbacks : key[2] = 0

\* the first submission is in flight
FirstSubmission == tool = "create" /\ pc = "posting" /\ attempt = 1
\* the node carries what the registry prescribes for its id: the registry's version,
\* or no version field when the id is not in the registry
VersionAsRegistered(node) ==
    IF Get(node, "module").v \in DOMAIN VERIFIED_MODULE_VERSIONS
    THEN Get(node, "version") = Num(VERIFIED_MODULE_VERSIONS[Get(node, "module").v])
    ELSE Get(node, "version") = Undefined

\* C26: in the blueprint of the first submission, after healing and the live-catalog
\* remap, every node with a registry id carries the registry's version and every
\* node with another id carries no version.
C26_FirstSubmissionVersions ==
    FirstSubmission =>
        \A n \in NodesOf(parsedTree) :
            (IsObjectLike(n.node) /\ IsString(Get(n.node, "module"))) =>
                VersionAsRegistered(n.node)

\* the ids of the live snapshot of the session
Snapshot == {liveIds.ids[i] : i \in 1..Len(liveIds.ids)}
\* the non-blank step ids of the tree, at every depth
StepIdsOf(parsed) == {StepId(n.node) : n \in {m \in NodesOf(parsed) : HasStepId(m.node)}}
Unresolvable(id) ==
    id \notin Snapshot /\ resolveClosestLiveModule(id, liveIds.ids) \in {NoSuggestion, id}

\* C27: with a live snapshot, every submission, first or retried, carries a tree whose
\* non-blank step ids are all in the snapshot; when some step id is neither in the
\* snapshot nor resolvable to a substitute the call fails with no submission made.
C27_SubmittedIdsAreLive ==
    (tool = "create" /\ liveIds.ok) =>
        /\ pc = "posting" => StepIdsOf(parsedTree) \subseteq Snapshot
        /\ (pc \in {"posting", "done"} /\ \E id \in StepIdsOf(parsedTree) : Unresolvable(id)) =>
              /\ pc = "done"
              /\ submissions = 0
              /\ result.kind = "failed"
              /\ result.message = "Cannot deploy: modules not available"
\* a retry after a substitution in the loop, in a session that also substituted an id
\* before the first submission
C27_Witness ==
    /\ tool = "create" /\ liveIds.ok
    /\ pc = "posting"
    /\ attempt >= 2
    /\ lastFailure.repair = "remap"
    /\ Len(remappedModules) >= 2
    /\ "slack:ActionPostMessage" \in StepIdsOf(parsedTree)

\* the statuses of a rejection that is not a 400: NoStatus is no response at all
NotBadRequest(error) == error.status # 400

\* C29: a failed submission whose status is not 400, or that got no response, ends the
\* call as failed on that attempt: no repair is applied, the tree is unchanged and no
\* further submission is made.
C29_NonBadRequestEndsSession ==
    [][(Failing /\ NotBadRequest(lastFailure'.error)) =>
          /\ lastFailure'.repair = "throw"
          /\ pc' = "done"
          /\ result'.kind = "failed"
          /\ parsedTree' = parsedTree
          /\ submissions' = submissions
          /\ attempt' = attempt
          /\ triedVersionFallbacks' = triedVersionFallbacks
          /\ strippedVersionsForRetry' = strippedVersionsForRetry
          /\ remappedModules' = remappedModules]_vars
\* a session ended by a 500 that names a step with code IM007, on its second attempt
C29_Witness ==
    /\ tool = "create" /\ pc = "done"
    /\ lastFailure.attempt = 2
    /\ lastFailure.error.status = 500
    /\ lastFailure.error.code = "IM007"
    /\ lastFailure.error.module # NoText
    /\ submissions = 2
    /\ result.kind = "failed"

\* the result of leaving the loop with neither a response nor an error
AfterRetryAttempts == "Failed to create scenario after retry attempts."
Retried == lastFailure.attempt > 0 /\ lastFailure.repair \notin {"abort_problematic", "throw"}
FailedLastAttempt == lastFailure.attempt = maxAttempts

\* C30: the retry loop ends only with a response or with the error of a failed attempt:
\* every retry is taken while attempt < maxAttempts, the result 'Failed to create
\* scenario after retry attempts.' is never returned, and a failure of the last
\* attempt ends the call with that attempt's error.
C30_LoopEndsWithResponseOrError ==
    tool = "create" =>
        /\ result.kind = "failed" => result.message # AfterRetryAttempts
        /\ pc = "posting" => attempt \in 1..maxAttempts
        /\ Retried => lastFailure.attempt < maxAttempts
        /\ FailedLastAttempt =>
              /\ pc = "done"
              /\ result.kind = "failed"
              /\ result.error = lastFailure.error
        /\ (pc = "done" /\ submissions > 0) =>
              \/ result.kind = "ok"
              \/ result.kind = "failed" /\ result.message = "Scenario was created but is invalid"
              \/ /\ result.kind = "failed"
                 /\ lastFailure.attempt = attempt
                 /\ result.error = lastFailure.error
\* the last attempt was rejected with an error that an earlier attempt would have
\* answered by a substitution
C30_Witness ==
    /\ tool = "create" /\ pc = "done" /\ liveIds.ok
    /\ FailedLastAttempt
    /\ submissions = maxAttempts
    /\ lastFailure.error.status = 400
    /\ lastFailure.error.module = "slack:PostMessage"
    /\ lastFailure.repair = "throw"
    /\ result.error = lastFailure.error

-----------------------------------------------------------------------------
(* create_scenario against a server that keeps rejecting the same steps *)

\* rejections that name a step of the blueprint and report a revision
RetryErrors ==
    {NoError}
    \cup {ErrorResponse(400, "IM007", module, version) :
             module \in {"http:ActionSendData", "slack:PostMessage"},
             version \in {NoNumber, 2, 3, 4}}
RetryBlueprints ==
    {Obj([flow |-> Arr(<<WebHookOk, HttpPinned, Router(<<RouteWithFilter(<<SlackRenamed>>)>>)>>)]),
     Obj([flow |-> Arr(<<HttpPinned, SlackRenamed>>)])}

InitRetry ==
    /\ tool = "create"
    /\ pc = "start"
    /\ blueprint \in RetryBlueprints
    /\ apiKeyValid = TRUE
    /\ liveIds \in CreateLive
    /\ report = NoReport
    /\ healed = NoHeal
    /\ healedTwice = NoHeal
    /\ reconciled = <<>>
    /\ teamIdGiven = TRUE
    /\ parsedTree = Null
    /\ schedulingConfig = OnDemand
    /\ attempt = 0
    /\ submissions = 0
    /\ triedVersionFallbacks = {}
    /\ strippedVersionsForRetry = FALSE
    /\ remappedModules = <<>>
    /\ failedModulesOuter = <<>>
    /\ lastFailure = NoFailure
    /\ result = NoResult
    /\ ResolverIdle /\ CacheIdle /\ PermuteIdle /\ CompatIdle /\ AuxIdle

\* the catch of the retry loop, on a rejection that names a step
PostRejected ==
    /\ tool = "create"
    /\ pc = "posting"
    /\ \E error \in RetryErrors :
          \E repair \in {SelectRepair(error)} : PostFailsWith(error, repair)
    /\ UNCHANGED <<auxVars, resolverVars, cacheVars, permuteVars, compatVars, tool, blueprint, apiKeyValid, liveIds, validateVars, healVars, teamIdGiven,
                   schedulingConfig>>

NextRetry == CreateScenarioBegin \/ LiveFetched \/ PostSucceeds \/ PostRejected
SpecRetry == InitRetry /\ [][NextRetry]_vars

\* the steps whose revision was already decremented in this session
Decremented == {key[1] : key \in {k \in triedVersionFallbacks : k[2] # 0}}

\* C24: in one session the revision of a step is decremented at most once, however
\* many failures name the step and whatever revisions they report.
C24_DecrementOncePerStep ==
    [][(Failing /\ lastFailure'.repair = "version_decrement") =>
          lastFailure'.error.module \notin Decremented]_vars
\* a session in which a step was taken down by two revisions
C24_DecrementedTwice ==
    /\ tool = "create"
    /\ \E k1 \in triedVersionFallbacks : \E k2 \in triedVersionFallbacks :
          k1[1] = k2[1] /\ k1[2] # 0 /\ k2[2] # 0 /\ k1[2] # k2[2]

\* the failure before this one was answered by substituting this id
SubstitutedBefore(id) ==
    /\ lastFailure.attempt > 0
    /\ lastFailure.repair = "remap"
    /\ lastFailure.error.module = id

\* C25: in one session the id named by a failure is substituted at most once: a later
\* failure that names an id already substituted is not answered by substituting it
\* and retrying again.
C25_SubstituteOncePerStep ==
    [][(Failing /\ lastFailure'.repair = "remap") =>
          ~SubstitutedBefore(lastFailure'.error.module)]_vars

-----------------------------------------------------------------------------
(* fetchLiveModuleIds called by several tool calls at once: each call runs from its
   start to the await of axios.get, and from the settling of axios.get to its return,
   without interruption; the calls share liveModuleCatalogCache and the clock *)

MaxReaders == 2

Readers == 1..MaxReaders
\* a call that has not started, that awaits axios.get, that has returned
NotCalled == [pc |-> "idle", requests |-> 0, received |-> NoLive]
Awaiting == [pc |-> "awaiting", requests |-> 1, received |-> NoLive]
Returned(issued, ids) == [pc |-> "returned", requests |-> issued, received |-> ids]
ReaderResponses ==
    {Rejected,
     Fulfilled(Obj([modules |-> Arr(<<>>)])),
     Fulfilled(Obj([modules |-> Arr(<<Str("slack:ActionPostMessage"),
                                     Obj([id |-> Str("http:ActionSendData")])>>)])),
     Fulfilled(Arr(<<Obj([module |-> Str("gateway:CustomWebHook"),
                         key |-> Str("slack:ActionPostMessage"), id |-> Num(7)]),
                    Str("slack:ActionPostMessage")>>))}

InitReaders ==
    /\ tool = "readers"
    /\ pc = "idle"
    /\ readers = [r \in Readers |-> NotCalled]
    /\ cache = NoEntry
    /\ now = 0
    /\ calls = 0
    /\ requests = 0
    /\ fetched = NoLive
    /\ blueprint = Null
    /\ apiKeyValid = TRUE
    /\ liveIds = NoLive
    /\ report = NoReport
    /\ healed = NoHeal
    /\ healedTwice = NoHeal
    /\ reconciled = <<>>
    /\ CreateIdle
    /\ ResolverIdle /\ PermuteIdle /\ CompatIdle /\ LoggerIdle /\ DbIdle

\* time passes between the steps of the calls
ReadersTick ==
    /\ tool = "readers"
    /\ now < MaxMinutes * Minute
    /\ now' = now + Minute
    /\ UNCHANGED <<loggerVars, dbVars, readers, tool, pc, blueprint, apiKeyValid, liveIds,
                   validateVars, healVars, createVars, resolverVars, cache, calls, requests,
                   fetched, permuteVars, compatVars>>

\* a tool call calls fetchLiveModuleIds: lines 310-317, up to the await
ReaderCalls(r) ==
    /\ tool = "readers"
    /\ readers[r].pc # "awaiting"
    /\ calls < MaxCalls
    /\ calls' = calls + 1
    /\ IF cache.present /\ now - cache.fetchedAt < MODULE_CACHE_TTL_MS
       THEN /\ readers' = [readers EXCEPT ![r] = Returned(0, Live(cache.ids))]
            /\ UNCHANGED requests
       ELSE /\ readers' = [readers EXCEPT ![r] = Awaiting]
            /\ requests' = requests + 1
    /\ UNCHANGED <<loggerVars, dbVars, tool, pc, blueprint, apiKeyValid, liveIds, validateVars,
                   healVars, createVars, resolverVars, cache, now, fetched, permuteVars,
                   compatVars>>

\* the axios.get of a call settles: lines 322-361, the set ids is built by the call
\* and stored by one liveModuleCatalogCache.set
ReaderSettles(r, response) ==
    /\ tool = "readers"
    /\ readers[r].pc = "awaiting"
    /\ \E ids \in {IF response.threw THEN <<>> ELSE ParsedIds(RawModules(response.data))} :
          IF response.threw \/ Len(ids) = 0
          THEN /\ readers' = [readers EXCEPT ![r] = Returned(1, NoLive)]
               /\ UNCHANGED cache
          ELSE /\ cache' = Entry(now, ids)
               /\ readers' = [readers EXCEPT ![r] = Returned(1, Live(ids))]
    /\ UNCHANGED <<loggerVars, dbVars, tool, pc, blueprint, apiKeyValid, liveIds, validateVars,
                   healVars, createVars, resolverVars, now, calls, requests, fetched,
                   permuteVars, compatVars>>

ReaderBegins == \E r \in Readers : ReaderCalls(r)
ReaderEnds == \E r \in Readers : \E response \in ReaderResponses : ReaderSettles(r, response)
NextReaders == ReadersTick \/ ReaderBegins \/ ReaderEnds
SpecReaders == InitReaders /\ [][NextReaders]_vars

(* properties of concurrent readers of the live catalog *)
\* every id text one answer of the modules endpoint holds
CandidatesOf(item) ==
    IF IsString(item) THEN {item}
    ELSE IF Truthy(item) /\ IsObjectLike(item)
    THEN {Get(item, "id"), Get(item, "module"), Get(item, "key")}
    ELSE {}
CompleteIdSet(data) ==
    {c.v : c \in {x \in UNION {CandidatesOf(RawModules(data)[i]) :
                                  i \in 1..Len(RawModules(data))} : IsIdText(x)}}
OneFetchSets == {CompleteIdSet(response.data) : response \in {x \in ReaderResponses : ~x.threw}}
\* ids is a Set holding all the ids of one answer, and at least one
IsSnapshot(ids) ==
    /\ Len(ids) > 0
    /\ \A i \in 1..Len(ids) : \A j \in 1..Len(ids) : ids[i] = ids[j] => i = j
    /\ {ids[i] : i \in 1..Len(ids)} \in OneFetchSets
Unexpired == cache.present /\ now - cache.fetchedAt < MODULE_CACHE_TTL_MS
Changed(r) == readers'[r] # readers[r]

\* C28: under any interleaving of the calls, a call to fetchLiveModuleIds either
\* returns the unexpired cached ids with no request or issues exactly one request,
\* and every id set a call returns or the cache holds is the complete, non-empty id
\* set of one answer of the modules endpoint.
C28_SnapshotOrOneFetch ==
    [][tool = "readers" =>
          /\ (calls' = calls + 1 /\ requests' = requests) =>
                /\ Unexpired
                /\ cache' = cache
                /\ \A r \in Readers : Changed(r) => readers'[r] = Returned(0, Live(cache.ids))
          /\ (calls' = calls + 1 /\ requests' # requests) =>
                /\ requests' = requests + 1
                /\ cache' = cache
                /\ \E r \in Readers :
                      /\ readers'[r] = Awaiting
                      /\ \A other \in Readers \ {r} : ~Changed(other)
          /\ calls' = calls => requests' = requests
          /\ \A r \in Readers :
                /\ readers'[r].requests \in {0, 1}
                /\ readers'[r].received.ok => IsSnapshot(readers'[r].received.ids)
                /\ (Changed(r) /\ readers[r].pc = "awaiting") =>
                      /\ readers'[r].pc = "returned" /\ readers'[r].requests = 1
                      /\ readers'[r].received.ok => cache' = Entry(now, readers'[r].received.ids)
          /\ cache'.present => IsSnapshot(cache'.ids)]_vars
\* two calls were in flight at once and got different answers; the cache holds the
\* answer of one of them
C28_Witness ==
    /\ tool = "readers"
    /\ now = 0
    /\ readers[1].pc = "returned" /\ readers[2].pc = "returned"
    /\ readers[1].requests = 1 /\ readers[2].requests = 1
    /\ readers[1].received.ok /\ readers[2].received.ok
    /\ readers[1].received # readers[2].received
    /\ cache.present /\ cache.ids = readers[2].received.ids

====
